---- MODULE Spec2Model ----
(***************************************************************************)
(* Model of Par_LB_CollectParticle2OneLevel and                            *)
(* Par_LB_CollectParticle2OneLevel_FreeMemory                              *)
(* (src/Particle/LoadBalance/Par_LB_CollectParticle2OneLevel.cpp).         *)
(*                                                                         *)
(* Every MPI rank runs the same routine on its own memory; the ranks meet  *)
(* only in Par_LB_SendParticleData (step 2) and, in a DEBUG_PARTICLE       *)
(* build, in the MPI_Reduce of step 5.  Arrays are functions on 0..n-1 so  *)
(* that indices read as in the source.                                     *)
(***************************************************************************)
EXTENDS Integers, FiniteSets, Sequences, TLC

\* ------------------------------------------------------------------ bounds
\* number of MPI ranks
MPI_NRank == 2
\* finest refinement level of the modelled hierarchy
MAX_LEVEL == 2
\* number of particles in the modelled run
MaxPar == 2
\* number of top-level calls the driver issues in one behaviour
MaxCalls == 2

\* --------------------------------------------------------------- constants
NParVar  == 4
PAR_MASS == 0
PAR_POSX == 1
PAR_POSY == 2
PAR_POSZ == 3
\* sentinel of NPar_Copy: "not calculated yet"
NOT_SET  == -1

Ranks    == 0 .. (MPI_NRank - 1)
Levels   == 0 .. MAX_LEVEL
Vars     == 0 .. (NParVar - 1)

\* ------------------------------------------------------------ array helpers
EmptyArr == [i \in {} |-> 0]
ALen(a)   == Cardinality(DOMAIN a)
NewArr(n, v) == [i \in 0 .. (n - 1) |-> v]
RECURSIVE SumTo(_, _)
SumTo(a, n) == IF n <= 0 THEN 0 ELSE a[n - 1] + SumTo(a, n - 1)
SumArr(a) == SumTo(a, ALen(a))
RECURSIVE SumSet(_, _)
SumSet(f, S) == IF S = {} THEN 0
                ELSE LET x == CHOOSE y \in S : TRUE IN f[x] + SumSet(f, S \ {x})
RECURSIVE Pow8(_)
Pow8(n) == IF n <= 0 THEN 1 ELSE 8 * Pow8(n - 1)
RECURSIVE Pow2(_)
Pow2(n) == IF n <= 0 THEN 1 ELSE 2 * Pow2(n - 1)
\* the elements of a finite set of integers in ascending order, as an array
RECURSIVE AscArr(_)
AscArr(S) == IF S = {} THEN EmptyArr
             ELSE LET m == CHOOSE x \in S : \A y \in S : y <= x
                      rest == AscArr(S \ {m})
                  IN [i \in 0 .. ALen(rest) |-> IF i = ALen(rest) THEN m ELSE rest[i]]
Reverse(a) == [i \in DOMAIN a |-> a[ALen(a) - 1 - i]]
Concat(a, b) == [i \in 0 .. (ALen(a) + ALen(b) - 1) |-> IF i < ALen(a) THEN a[i] ELSE b[i - ALen(a)]]

\* ------------------------------------------------------- the patch hierarchy
\* Level 0 holds two patches.  The first is refined into its eight sons, whose
\* keys are 8*key .. 8*key+7; at every further level below MAX_LEVEL two
\* neighbouring patches are refined.
RECURSIVE RefKey(_)
RefKey(lv) == IF lv = 0 THEN 0 ELSE 8 * RefKey(lv - 1) + 5
Refined(lv) == IF lv >= MAX_LEVEL THEN {}
               ELSE IF lv = 0 THEN {0}
               ELSE {RefKey(lv), RefKey(lv) + 1}
Keys(lv) == IF lv = 0 THEN 0 .. 1
            ELSE {8 * k + i : k \in Refined(lv - 1), i \in 0 .. 7}
HasSon(lv, key) == key \in Refined(lv)

\* corner of a patch in units of the finest patch width (bit d of every key
\* digit is the offset along axis d)
RECURSIVE CornerAt(_, _, _)
CornerAt(lv, key, d) ==
    IF lv = 0 THEN (IF d = 0 THEN key ELSE 0)
    ELSE 2 * CornerAt(lv - 1, key \div 8, d) + (((key % 8) \div Pow2(d)) % 2)
PatchWidth(lv) == Pow2(MAX_LEVEL - lv)
Corner(lv, key) == [d \in 0 .. 2 |-> CornerAt(lv, key, d) * PatchWidth(lv)]

\* ------------------------------------------------------------------- state
VARIABLES
    DEBUG_PARTICLE,    \* build configuration: the diagnostic checks are compiled in
    LB_CutPoint,       \* amr->LB->CutPoint: LB_CutPoint[lv][r] is the first key of rank r
    NPatchComma,       \* amr->NPatchComma[lv][1] of every rank: the number of real patches
    patch,             \* amr->patch[0][lv][PID] of every rank: LB_Idx, son, NPar, ParList
    Par,               \* amr->Par of every rank: the particle repository
    NPar_Copy,         \* patch[..]->NPar_Copy
    ParMassPos_Copy,   \* patch[..]->ParMassPos_Copy[v]
    pc,                \* position of every rank in the routine it runs
    arg,               \* arguments of the call in progress (the same on all ranks)
    loc,               \* the local arrays of the call in progress, per rank
    net,               \* send buffers handed to Par_LB_SendParticleData, per rank
    err,               \* message of the Aux_Error that stopped a rank
    ghost              \* bookkeeping of the driver: calls issued, previous call

vars == <<DEBUG_PARTICLE, LB_CutPoint, NPatchComma, patch, Par, NPar_Copy, ParMassPos_Copy,
          pc, arg, loc, net, err, ghost>>

\* ------------------------------------------------------------- ownership
\* LB_Index2Rank: rank r owns the keys in [CutPoint[r], CutPoint[r+1])
LB_Index2Rank_Of(cut, lv, LB_Idx) ==
    CHOOSE r \in Ranks : /\ cut[lv][r] <= LB_Idx
                         /\ \A q \in Ranks : cut[lv][q] <= LB_Idx => q <= r
LB_Index2Rank(lv, LB_Idx) == LB_Index2Rank_Of(LB_CutPoint, lv, LB_Idx)

\* key of the level-FaLv ancestor of a level-lv patch (LOAD_BALANCE == HILBERT);
\* the int divisor of lines 172 and 228 is exact for the levels up to
\* MAX_LEVEL of this model, its width is modelled by FastKey below
FaLBIdx(LB_Idx, lv, FaLv) == LB_Idx \div Pow8(lv - FaLv)

\* LB_Corner2Index: key of the level-lv patch whose corner is Cr, one key
\* digit per level, bit d of the digit taken from axis d
RECURSIVE LB_CoordIndex(_, _)
LB_CoordIndex(lv, c) ==
    IF lv = 0 THEN c[0]
    ELSE 8 * LB_CoordIndex(lv - 1, [ d \in 0 .. 2 |-> c[d] \div 2 ])
         + (c[0] % 2) + 2 * (c[1] % 2) + 4 * (c[2] % 2)
LB_Corner2Index(lv, Cr) == LB_CoordIndex(lv, [ d \in 0 .. 2 |-> Cr[d] \div PatchWidth(lv) ])

\* key of the level-FaLv ancestor by the generic path (lines 174-175): the
\* corner is truncated to the patch size of FaLv and encoded
PatchScaleFaLv(FaLv) == PatchWidth(FaLv)
GenericLBIdx(LB_Idx, lv, FaLv) ==
    LET corner == Corner(lv, LB_Idx)
        FaCr   == [ d \in 0 .. 2 |-> corner[d] - (corner[d] % PatchScaleFaLv(FaLv)) ]
    IN LB_Corner2Index(FaLv, FaCr)

\* candidate first keys of the ranks > 0 at a level
CutCand(lv) == IF lv = 0 THEN {1}
               ELSE {8 * RefKey(lv - 1) + 3, 8 * RefKey(lv - 1) + 6}
CutsAt(lv) == { c \in [Ranks -> CutCand(lv) \cup {0}] :
                  /\ c[0] = 0
                  /\ \A r \in Ranks \ {0} : c[r] \in CutCand(lv) /\ c[r - 1] <= c[r] }
\* the ranks are cut at the same son of the refined patch at every level
CutChoices == { c \in [Levels -> UNION {CutsAt(lv) : lv \in Levels}] :
                  /\ \A lv \in Levels : c[lv] \in CutsAt(lv)
                  /\ \A lv \in Levels \ {0} : \A r \in Ranks : c[lv][r] % 8 = c[1][r] % 8 }

\* ------------------------------------------------- patches of one rank
\* real patches first (PID < NPatchComma[lv][1]), in descending key order, so
\* that IdxList_Real_IdxTable is not the identity; then the buffer patches
RealKeys(cut, r, lv) == { k \in Keys(lv) : LB_Index2Rank_Of(cut, lv, k) = r }
BuffKeys(cut, r, lv) == Keys(lv) \ RealKeys(cut, r, lv)
PatchKeys(cut, r, lv) == Concat(Reverse(AscArr(RealKeys(cut, r, lv))), AscArr(BuffKeys(cut, r, lv)))

\* homes a particle may have: a non-leaf patch of every level below MAX_LEVEL
\* (a particle waiting there for its velocity correction) and leaf patches of
\* every level, on both sides of every cut
HomeCand ==
    { <<lv, RefKey(lv)>> : lv \in 0 .. (MAX_LEVEL - 1) }
    \cup { <<0, 1>> }
    \cup { <<lv, 8 * RefKey(lv - 1) + 2>> : lv \in 1 .. MAX_LEVEL }
    \cup { <<MAX_LEVEL, 8 * RefKey(MAX_LEVEL - 1) + 7>>, <<MAX_LEVEL, 8 * RefKey(MAX_LEVEL - 1) + 15>> }
HomeOrd(h) == h[1] * Pow8(MAX_LEVEL + 1) + h[2]
Particles == 1 .. MaxPar
HomeChoices == { h \in [Particles -> HomeCand] :
                   \A p \in Particles : p > 1 => HomeOrd(h[p - 1]) <= HomeOrd(h[p]) }

\* the placements on which the driver issues more than one call: the first
\* particle in a patch of level 0 (waiting in the refined one, or resident in
\* the leaf), the others in the last son of the refined patch of level MAX_LEVEL-1
RefHomes == { h \in HomeChoices :
                /\ h[1] \in { <<0, 0>>, <<0, 1>> }
                /\ \A p \in Particles \ {1} : h[p] = <<MAX_LEVEL, 8 * RefKey(MAX_LEVEL - 1) + 7>> }

\* particles living on rank r, in ParID order
ParOfRank(cut, home, r) ==
    AscArr({ p \in Particles : LB_Index2Rank_Of(cut, home[p][1], home[p][2]) = r })
\* ParIDs (indices of the repository of rank r) of the particles in one patch
ParListOf(cut, home, r, lv, key) ==
    LET ids == ParOfRank(cut, home, r)
    IN AscArr({ i \in DOMAIN ids : home[ids[i]] = <<lv, key>> })

MassOf(p) == (p % 2) + 1

BuildPar(cut, home, r) ==
    LET ids == ParOfRank(cut, home, r)
    IN [ ParVar |-> [ v \in Vars |-> [ i \in DOMAIN ids |->
                        IF v = PAR_MASS THEN MassOf(ids[i])
                        ELSE Corner(home[ids[i]][1], home[ids[i]][2])[v - 1] ] ],
         Vel    |-> [ i \in DOMAIN ids |-> [ d \in 0 .. 2 |-> IF d = 0 THEN 1 ELSE 0 ] ],
         Integ  |-> "PAR_INTEG_KDK",
         Time   |-> [ i \in DOMAIN ids |->
                        IF HasSon(home[ids[i]][1], home[ids[i]][2]) THEN -1 ELSE 0 ] ]

BuildPatch(cut, home, r, lv) ==
    LET keys  == PatchKeys(cut, r, lv)
        nreal == Cardinality(RealKeys(cut, r, lv))
    IN [ PID \in DOMAIN keys |->
          LET k  == keys[PID]
              pl == IF PID < nreal THEN ParListOf(cut, home, r, lv, k) ELSE EmptyArr
          IN [ LB_Idx  |-> k,
               real    |-> PID < nreal,
               son     |-> IF ~HasSon(lv, k) THEN -1
                           ELSE IF LB_Index2Rank_Of(cut, lv + 1, 8 * k) = r /\ PID < nreal
                                THEN 0
                                ELSE -1000 - LB_Index2Rank_Of(cut, lv + 1, 8 * k),
               NPar    |-> ALen(pl),
               ParList |-> pl ] ]

\* ---------------------------------------------------- accessors of the code
\* amr->NPatchComma[lv][1]: number of real patches; amr->num[lv]: all patches
RealPIDs(r, lv) == 0 .. (NPatchComma[r][lv] - 1)

NullArr == [ alloc |-> FALSE, cell |-> EmptyArr, nwrite |-> EmptyArr ]
NullCopy == [ v \in Vars |-> NullArr ]

NoArg == [ op |-> "none", lv |-> 0, PredictPos |-> FALSE, TargetTime |-> 0,
           SibBufPatch |-> FALSE, FaSibBufPatch |-> FALSE, JustCountNPar |-> FALSE ]
NoLoc == [ x \in {} |-> 0 ]
NoNet == [ posted |-> FALSE, reduced |-> FALSE, Get |-> 0, Check |-> 0,
           NPatchForEachRank |-> NewArr(MPI_NRank, 0), NParForEachRank |-> NewArr(MPI_NRank, 0),
           SendBuf_NParEachPatch |-> EmptyArr, SendBuf_LBIdxEachPatch |-> EmptyArr,
           SendBuf_ParDataEachPatch |-> EmptyArr ]

\* ------------------------------------------------- temporary buffers
\* the arrays Par_LB_CollectParticle2OneLevel allocates with new [], or
\* receives from Par_LB_SendParticleData, by the name of the pointer that
\* first holds them
Temporaries ==
    { "NParForEachRank", "NPatchForEachRank", "SendBuf_NParEachPatch", "SendBuf_LBIdxEachPatch",
      "SendBuf_ParDataEachPatch", "Offset_NParEachPatch", "Offset_ParDataEachPatch",
      "RecvBuf_NPatchEachRank", "RecvBuf_NParEachPatch", "RecvBuf_LBIdxEachPatch",
      "RecvBuf_ParDataEachPatch", "RecvBuf_LBIdxEachPatch_IdxTable", "Match_LBIdxEachPatch",
      "FaPIDList" }
SendBuffers ==
    { "NPatchForEachRank", "SendBuf_NParEachPatch", "SendBuf_LBIdxEachPatch", "SendBuf_ParDataEachPatch" }
\* the array a pointer points to: two pointers are second names (lines 133, 201)
Pointee(ptr) ==
    IF ptr = "SendBuf_NPatchEachRank" THEN "NPatchForEachRank"
    ELSE IF ptr = "Offset_LBIdxEachPatch" THEN "Offset_NParEachPatch"
    ELSE ptr
\* the heap of one rank: how often each array was allocated and deleted, and
\* whether an array was read or written while not allocated
NoHeap == [ new |-> [ a \in Temporaries |-> 0 ], del |-> [ a \in Temporaries |-> 0 ], bad |-> FALSE ]
Live(h, a) == h.new[a] = h.del[a] + 1
HeapNew(h, ptrs) ==
    [ h EXCEPT !.new = [ a \in Temporaries |-> IF a \in ptrs THEN h.new[a] + 1 ELSE h.new[a] ] ]
HeapUse(h, ptrs) ==
    [ h EXCEPT !.bad = h.bad \/ \E ptr \in ptrs : ~Live(h, Pointee(ptr)) ]
\* delete [] on each pointer of the sequence, in order
HeapDelete(h, ptrs) ==
    [ h EXCEPT !.del = [ a \in Temporaries |->
                          h.del[a] + Cardinality({ i \in DOMAIN ptrs : Pointee(ptrs[i]) = a }) ] ]
HeapStep(h, news, uses, dels) == HeapDelete(HeapUse(HeapNew(h, news), uses), dels)

\* lines 131-136, 193-196, 200-202: the arrays step 1 allocates
Step1_News ==
    { "NParForEachRank", "NPatchForEachRank", "SendBuf_NParEachPatch", "SendBuf_LBIdxEachPatch",
      "Offset_NParEachPatch", "Offset_ParDataEachPatch" }
    \cup (IF arg.JustCountNPar THEN {} ELSE { "SendBuf_ParDataEachPatch" })
\* lines 148-282: the pointers step 1 reads and writes through
Step1_Uses ==
    { "NParForEachRank", "NPatchForEachRank", "Offset_NParEachPatch", "Offset_ParDataEachPatch",
      "SendBuf_NParEachPatch", "SendBuf_LBIdxEachPatch" }
    \cup (IF arg.JustCountNPar THEN {} ELSE { "SendBuf_ParDataEachPatch" })
\* lines 300-303: the send buffers handed to the exchange
Step2_Uses ==
    { "SendBuf_NPatchEachRank", "SendBuf_NParEachPatch", "SendBuf_LBIdxEachPatch" }
    \cup (IF arg.JustCountNPar THEN {} ELSE { "SendBuf_ParDataEachPatch" })
\* the arrays the exchange allocates and returns; the particle data are
\* exchanged, and their array allocated, under Exchange_ParDataEachRank only
Exchange_News ==
    { "RecvBuf_NPatchEachRank", "RecvBuf_NParEachPatch", "RecvBuf_LBIdxEachPatch" }
    \cup (IF arg.JustCountNPar THEN {} ELSE { "RecvBuf_ParDataEachPatch" })
\* lines 306-310
Step2_2_Deletes ==
    << "SendBuf_NPatchEachRank", "SendBuf_NParEachPatch", "SendBuf_LBIdxEachPatch" >>
    \o (IF arg.JustCountNPar THEN << >> ELSE << "SendBuf_ParDataEachPatch" >>)
\* lines 316-317
Step3_1_News == { "RecvBuf_LBIdxEachPatch_IdxTable", "Match_LBIdxEachPatch" }
\* lines 320-323
Step3_1_Uses == { "RecvBuf_LBIdxEachPatch", "RecvBuf_LBIdxEachPatch_IdxTable", "Match_LBIdxEachPatch" }
\* line 328
Step3_2_News == { "FaPIDList" }
\* lines 341-368
Step3_2_Uses ==
    { "Match_LBIdxEachPatch", "RecvBuf_LBIdxEachPatch_IdxTable", "RecvBuf_NParEachPatch", "FaPIDList" }
\* lines 388-442, entered in the full mode only
Step3_4_Uses ==
    IF arg.JustCountNPar THEN {}
    ELSE { "RecvBuf_ParDataEachPatch", "RecvBuf_NParEachPatch", "FaPIDList" }
\* a faulty step 7 that deletes the offset table through both of its names
Step7_Deletes_BothNames ==
    << "RecvBuf_NPatchEachRank", "RecvBuf_NParEachPatch", "RecvBuf_LBIdxEachPatch" >>
    \o (IF arg.JustCountNPar THEN << >> ELSE << "RecvBuf_ParDataEachPatch" >>)
    \o << "NParForEachRank", "Offset_NParEachPatch", "Offset_LBIdxEachPatch", "Offset_ParDataEachPatch",
          "RecvBuf_LBIdxEachPatch_IdxTable", "Match_LBIdxEachPatch", "FaPIDList" >>
\* lines 521-532
Step7_Deletes ==
    << "RecvBuf_NPatchEachRank", "RecvBuf_NParEachPatch", "RecvBuf_LBIdxEachPatch" >>
    \o (IF arg.JustCountNPar THEN << >> ELSE << "RecvBuf_ParDataEachPatch" >>)
    \o << "NParForEachRank", "Offset_NParEachPatch", "Offset_ParDataEachPatch",
          "RecvBuf_LBIdxEachPatch_IdxTable", "Match_LBIdxEachPatch", "FaPIDList" >>


\* the state after construction, for a set of placements of the particles;
\* inorder tells whether the ranks are stepped in rank order
Start(homes, inorder) ==
    /\ DEBUG_PARTICLE \in BOOLEAN
    /\ LB_CutPoint \in CutChoices
    /\ NPatchComma = [ r \in Ranks |-> [ lv \in Levels |-> Cardinality(RealKeys(LB_CutPoint, r, lv)) ] ]
    /\ \E home \in homes :
         /\ ghost = [ calls |-> 0, budget |-> IF inorder /\ home \in RefHomes THEN MaxCalls ELSE 1,
                      clean0 |-> TRUE, clean1 |-> TRUE, prev |-> NoArg, ub |-> FALSE,
                      ndelete |-> [ r \in Ranks |-> 0 ],
                      inorder |-> inorder,
                      nexch |-> [ r \in Ranks |-> 0 ],
                      deleg |-> [ r \in Ranks |-> EmptyArr ],
                      heap |-> [ r \in Ranks |-> NoHeap ] ]
         /\ patch = [ r \in Ranks |-> [ lv \in Levels |-> BuildPatch(LB_CutPoint, home, r, lv) ] ]
         /\ Par   = [ r \in Ranks |-> BuildPar(LB_CutPoint, home, r) ]
    /\ NPar_Copy = [ r \in Ranks |-> [ lv \in Levels |-> [ PID \in DOMAIN patch[r][lv] |-> NOT_SET ] ] ]
    /\ ParMassPos_Copy = [ r \in Ranks |-> [ lv \in Levels |-> [ PID \in DOMAIN patch[r][lv] |-> NullCopy ] ] ]
    /\ pc = [ r \in Ranks |-> "idle" ]
    /\ arg = NoArg
    /\ loc = [ r \in Ranks |-> NoLoc ]
    /\ net = [ r \in Ranks |-> NoNet ]
    /\ err = [ r \in Ranks |-> "" ]

Init == Start(HomeChoices, TRUE)

\* the placements of the runs whose ranks step in any order: the first
\* particle in the leaf of level 0 or in a son of the refined patch of level
\* MAX_LEVEL-1 below the cut, the others in its last son
AnyOrderHomes == { h \in HomeChoices :
                     /\ h[1] \in { <<0, 1>>, <<MAX_LEVEL, 8 * RefKey(MAX_LEVEL - 1) + 2>> }
                     /\ \A p \in Particles \ {1} : h[p] = <<MAX_LEVEL, 8 * RefKey(MAX_LEVEL - 1) + 7>> }
InitAnyOrder == Start(AnyOrderHomes, FALSE)

\* ------------------------------------------- a hierarchy that is not nested
\* a leaf of level lv
LeafKey(lv) == IF lv = 0 THEN 1 ELSE 8 * RefKey(lv - 1) + 2
\* two patches of MAX_LEVEL that the hierarchy above does not have: a son of
\* a leaf of MAX_LEVEL-1, whose father is there and has no son, and a
\* grandson of a leaf of MAX_LEVEL-2, whose father is not there at all
OrphanOfLeaf == <<MAX_LEVEL, 8 * LeafKey(MAX_LEVEL - 1) + 2>>
OrphanOfNone == <<MAX_LEVEL, 8 * (8 * LeafKey(MAX_LEVEL - 2)) + 2>>
\* the first particle lives in one of the two, the others in the last son of
\* the refined patch of MAX_LEVEL-1
OrphanHomes == { h \in [Particles -> HomeCand \cup {OrphanOfLeaf, OrphanOfNone}] :
                   /\ h[1] \in {OrphanOfLeaf, OrphanOfNone}
                   /\ \A p \in Particles \ {1} : h[p] = <<MAX_LEVEL, 8 * RefKey(MAX_LEVEL - 1) + 7>> }
\* the patches of rank r at level lv, with the patch of the first particle as
\* one more real leaf patch on the rank that owns its key
OrphanPatch(cut, home, r, lv) ==
    LET base == BuildPatch(cut, home, r, lv)
        k    == home[1][2]
        pl   == ParListOf(cut, home, r, lv, k)
    IN IF home[1][1] = lv /\ k \notin Keys(lv) /\ LB_Index2Rank_Of(cut, lv, k) = r
       THEN [ PID \in 0 .. ALen(base) |->
                IF PID = 0
                THEN [ LB_Idx |-> k, real |-> TRUE, son |-> -1, NPar |-> ALen(pl), ParList |-> pl ]
                ELSE base[PID - 1] ]
       ELSE base
\* the state after construction on such a hierarchy; the driver issues one call
InitOrphan ==
    /\ DEBUG_PARTICLE \in BOOLEAN
    /\ LB_CutPoint \in CutChoices
    /\ \E home \in OrphanHomes :
         /\ patch = [ r \in Ranks |-> [ lv \in Levels |-> OrphanPatch(LB_CutPoint, home, r, lv) ] ]
         /\ Par   = [ r \in Ranks |-> BuildPar(LB_CutPoint, home, r) ]
    /\ NPatchComma = [ r \in Ranks |-> [ lv \in Levels |->
                         Cardinality({ PID \in DOMAIN patch[r][lv] : patch[r][lv][PID].real }) ] ]
    /\ ghost = [ calls |-> 0, budget |-> 1,
                 clean0 |-> TRUE, clean1 |-> TRUE, prev |-> NoArg, ub |-> FALSE,
                 ndelete |-> [ r \in Ranks |-> 0 ],
                 inorder |-> TRUE,
                 nexch |-> [ r \in Ranks |-> 0 ],
                 deleg |-> [ r \in Ranks |-> EmptyArr ],
                 heap |-> [ r \in Ranks |-> NoHeap ] ]
    /\ NPar_Copy = [ r \in Ranks |-> [ lv \in Levels |-> [ PID \in DOMAIN patch[r][lv] |-> NOT_SET ] ] ]
    /\ ParMassPos_Copy = [ r \in Ranks |-> [ lv \in Levels |-> [ PID \in DOMAIN patch[r][lv] |-> NullCopy ] ] ]
    /\ pc = [ r \in Ranks |-> "idle" ]
    /\ arg = NoArg
    /\ loc = [ r \in Ranks |-> NoLoc ]
    /\ net = [ r \in Ranks |-> NoNet ]
    /\ err = [ r \in Ranks |-> "" ]

\* --------------------------------- the time integrator and the time tags
\* amr->Par->Integ: the integrator of the run
Integrators == { "PAR_INTEG_KDK", "PAR_INTEG_EULER" }
\* the first particle waits in a patch with sons, the others live in the last
\* son of the refined patch of MAX_LEVEL-1
WaitingHomes == { h \in HomeChoices :
                    /\ h[1] \in { <<lv, RefKey(lv)>> : lv \in 0 .. (MAX_LEVEL - 1) }
                    /\ \A p \in Particles \ {1} : h[p] = <<MAX_LEVEL, 8 * RefKey(MAX_LEVEL - 1) + 7>> }
\* the repository of rank r under the integrator integ, the particles that
\* wait in a patch with sons having the time tag
TaggedPar(cut, home, r, integ, tag) ==
    LET base == BuildPar(cut, home, r)
    IN [ base EXCEPT !.Integ = integ,
                     !.Time = [ i \in DOMAIN base.Time |-> IF base.Time[i] < 0 THEN tag ELSE base.Time[i] ] ]
\* the state after construction for either integrator, the waiting particle
\* tagged as waiting (-1) or not (0); the driver issues one call
InitTagged ==
    /\ DEBUG_PARTICLE \in BOOLEAN
    /\ LB_CutPoint \in CutChoices
    /\ NPatchComma = [ r \in Ranks |-> [ lv \in Levels |-> Cardinality(RealKeys(LB_CutPoint, r, lv)) ] ]
    /\ \E home \in WaitingHomes : \E integ \in Integrators : \E tag \in {-1, 0} :
         /\ patch = [ r \in Ranks |-> [ lv \in Levels |-> BuildPatch(LB_CutPoint, home, r, lv) ] ]
         /\ Par   = [ r \in Ranks |-> TaggedPar(LB_CutPoint, home, r, integ, tag) ]
    /\ ghost = [ calls |-> 0, budget |-> 1,
                 clean0 |-> TRUE, clean1 |-> TRUE, prev |-> NoArg, ub |-> FALSE,
                 ndelete |-> [ r \in Ranks |-> 0 ],
                 inorder |-> TRUE,
                 nexch |-> [ r \in Ranks |-> 0 ],
                 deleg |-> [ r \in Ranks |-> EmptyArr ],
                 heap |-> [ r \in Ranks |-> NoHeap ] ]
    /\ NPar_Copy = [ r \in Ranks |-> [ lv \in Levels |-> [ PID \in DOMAIN patch[r][lv] |-> NOT_SET ] ] ]
    /\ ParMassPos_Copy = [ r \in Ranks |-> [ lv \in Levels |-> [ PID \in DOMAIN patch[r][lv] |-> NullCopy ] ] ]
    /\ pc = [ r \in Ranks |-> "idle" ]
    /\ arg = NoArg
    /\ loc = [ r \in Ranks |-> NoLoc ]
    /\ net = [ r \in Ranks |-> NoNet ]
    /\ err = [ r \in Ranks |-> "" ]

\* value of an array element that was allocated and never written
UNINIT == 0 - 999

\* ------------------------------------------------------------- the driver
AllIdle == \A r \in Ranks : pc[r] = "idle"
NoAbort == \A r \in Ranks : pc[r] # "abort"

\* every patch of every rank is in the released state
IsClean(r, lv, PID) ==
    /\ NPar_Copy[r][lv][PID] = NOT_SET
    /\ \A v \in Vars : ~ParMassPos_Copy[r][lv][PID][v].alloc
AllClean == \A r \in Ranks : \A lv \in Levels : \A PID \in DOMAIN patch[r][lv] : IsClean(r, lv, PID)

\* ---------------------------------------------------------------- step 1
\* the real patches of the levels above FaLv that hold particles, in the
\* order of the two scans (lines 155-159 and 218-224)
RECURSIVE SrcList(_, _, _)
SrcList(r, FaLv, lv) ==
    IF lv > MAX_LEVEL THEN EmptyArr
    ELSE LET here == AscArr({ PID \in RealPIDs(r, lv) : patch[r][lv][PID].NPar # 0 })
         IN Concat([ i \in DOMAIN here |-> [ lv |-> lv, PID |-> here[i] ] ],
                   SrcList(r, FaLv, lv + 1))

\* lines 170-177: key of the ancestor at FaLv and its rank in the counting scan
SrcLBIdx(r, FaLv, s) == FaLBIdx(patch[r][s.lv][s.PID].LB_Idx, s.lv, FaLv)
SrcTRank(r, FaLv, s) == LB_Index2Rank(FaLv, SrcLBIdx(r, FaLv, s))

\* 1-1. number of patches and particles sent to each rank (lines 148-181)
RECURSIVE CountScan(_, _, _, _, _)
CountScan(r, FaLv, src, i, cnt) ==
    IF i >= ALen(src) THEN cnt
    ELSE LET TRank == SrcTRank(r, FaLv, src[i])
         IN CountScan(r, FaLv, src, i + 1,
               [ NParForEachRank   |-> [ cnt.NParForEachRank EXCEPT ![TRank] = @ + patch[r][src[i].lv][src[i].PID].NPar ],
                 NPatchForEachRank |-> [ cnt.NPatchForEachRank EXCEPT ![TRank] = @ + 1 ] ])

\* 1-3. offsets of each rank in the send buffers (lines 200-211)
RECURSIVE PrefixSum(_, _, _)
PrefixSum(n, scale, q) == IF q = 0 THEN 0 ELSE PrefixSum(n, scale, q - 1) + n[q - 1] * scale
\* a faulty table whose sums include the rank itself
OffsetTable_Inclusive(n, scale) == [ q \in Ranks |-> PrefixSum(n, scale, q + 1) ]
OffsetTable(n, scale) == [ q \in Ranks |-> PrefixSum(n, scale, q) ]

\* Par_PredictPos: position of particle ParID at TargetTime
Par_PredictPos(r, ParID, d, TargetTime) ==
    Par[r].ParVar[PAR_POSX + d][ParID] + Par[r].Vel[ParID][d] * (TargetTime - Par[r].Time[ParID])

\* a faulty copy that predicts the position whatever PredictPos says
SendValue_AlwaysPredict(r, ParID, v) ==
    IF v # PAR_MASS
    THEN Par_PredictPos(r, ParID, v - PAR_POSX, arg.TargetTime)
    ELSE Par[r].ParVar[v][ParID]

\* the four values of one particle in the send buffer (lines 254-274)
SendValue(r, ParID, v) ==
    IF v # PAR_MASS /\ arg.PredictPos
    THEN Par_PredictPos(r, ParID, v - PAR_POSX, arg.TargetTime)
    ELSE Par[r].ParVar[v][ParID]

\* the patches visited by the fill scan (lines 218-224), their ancestor key
\* and its rank (lines 226-233)
RECURSIVE FillList(_, _, _)
FillList(r, FaLv, lv) ==
    IF lv > MAX_LEVEL THEN EmptyArr
    ELSE LET here == AscArr({ PID \in RealPIDs(r, lv) : patch[r][lv][PID].NPar # 0 })
         IN Concat([ i \in DOMAIN here |-> [ lv |-> lv, PID |-> here[i] ] ],
                   FillList(r, FaLv, lv + 1))
\* a faulty key that shifts by one bit per level instead of three
FillLBIdx_OneBit(r, FaLv, s) == patch[r][s.lv][s.PID].LB_Idx \div Pow2(s.lv - FaLv)
FillLBIdx(r, FaLv, s) == patch[r][s.lv][s.PID].LB_Idx \div Pow8(s.lv - FaLv)
FillTRank(r, FaLv, s) == LB_Index2Rank(FaLv, FillLBIdx(r, FaLv, s))

\* write one particle at the cursor off of the field buffer
WriteParticle(buf, off, r, ParID) ==
    [ j \in DOMAIN buf |-> IF j >= off /\ j < off + NParVar
                           THEN SendValue(r, ParID, j - off) ELSE buf[j] ]

RECURSIVE CopyParticles(_, _, _, _, _)
CopyParticles(buf, off, r, ParList, p) ==
    IF p >= ALen(ParList) THEN buf
    ELSE CopyParticles(WriteParticle(buf, off + p * NParVar, r, ParList[p]), off, r, ParList, p + 1)

\* 1-4. fill the send buffers (lines 218-282)
RECURSIVE FillScan(_, _, _, _, _)
FillScan(r, FaLv, src, i, st) ==
    IF i >= ALen(src) THEN st
    ELSE LET P      == patch[r][src[i].lv][src[i].PID]
             LB_Idx == FillLBIdx(r, FaLv, src[i])
             TRank  == FillTRank(r, FaLv, src[i])
             at     == st.Offset_NParEachPatch[TRank]
         IN FillScan(r, FaLv, src, i + 1,
              [ SendBuf_NParEachPatch    |-> [ st.SendBuf_NParEachPatch  EXCEPT ![at] = P.NPar ],
                SendBuf_LBIdxEachPatch   |-> [ st.SendBuf_LBIdxEachPatch EXCEPT ![at] = LB_Idx ],
                SendBuf_ParDataEachPatch |->
                    IF arg.JustCountNPar THEN st.SendBuf_ParDataEachPatch
                    ELSE CopyParticles(st.SendBuf_ParDataEachPatch,
                                       st.Offset_ParDataEachPatch[TRank], r, P.ParList, 0),
                NSendParTotal            |-> st.NSendParTotal,
                OffsetError              |-> \/ st.OffsetError
                                             \/ at >= ALen(st.SendBuf_NParEachPatch)
                                             \/ at + PAR_POSZ >= st.NSendParTotal * NParVar,
                Offset_NParEachPatch     |-> [ st.Offset_NParEachPatch EXCEPT ![TRank] = @ + 1 ],
                Offset_ParDataEachPatch  |->
                    IF arg.JustCountNPar THEN st.Offset_ParDataEachPatch
                    ELSE [ st.Offset_ParDataEachPatch EXCEPT ![TRank] = @ + P.NPar * NParVar ] ])

\* a faulty step 1 that predicts the positions in the repository itself
RepositoryAfterFill_InPlace(r, FaLv) ==
    LET src  == SrcList(r, FaLv, FaLv + 1)
        sent == { ParID \in DOMAIN Par[r].Time :
                    \E i \in DOMAIN src : \E p \in DOMAIN patch[r][src[i].lv][src[i].PID].ParList :
                        patch[r][src[i].lv][src[i].PID].ParList[p] = ParID }
    IN [ Par[r] EXCEPT !.ParVar =
           [ v \in Vars |-> [ ParID \in DOMAIN Par[r].ParVar[v] |->
               IF ParID \in sent /\ ~arg.JustCountNPar THEN SendValue(r, ParID, v)
               ELSE Par[r].ParVar[v][ParID] ] ] ]

\* the particle repository of rank r after step 1: Par_PredictPos is given
\* pointers into the send buffer (lines 270-273), the repository is only read
RepositoryAfterFill(r, FaLv) == Par[r]

\* the local arrays of rank r after step 1
PrepareSend(r, FaLv) ==
    LET src == SrcList(r, FaLv, FaLv + 1)
        cnt == CountScan(r, FaLv, src, 0,
                  [ NParForEachRank |-> NewArr(MPI_NRank, 0), NPatchForEachRank |-> NewArr(MPI_NRank, 0) ])
        NSendPatchTotal == SumArr(cnt.NPatchForEachRank)
        NSendParTotal   == SumArr(cnt.NParForEachRank)
        fill == FillScan(r, FaLv, FillList(r, FaLv, FaLv + 1), 0,
                  [ SendBuf_NParEachPatch    |-> NewArr(NSendPatchTotal, UNINIT),
                    SendBuf_LBIdxEachPatch   |-> NewArr(NSendPatchTotal, UNINIT),
                    SendBuf_ParDataEachPatch |-> IF arg.JustCountNPar THEN EmptyArr
                                                 ELSE NewArr(NSendParTotal * NParVar, UNINIT),
                    NSendParTotal            |-> NSendParTotal,
                    OffsetError              |-> FALSE,
                    Offset_NParEachPatch     |-> OffsetTable(cnt.NPatchForEachRank, 1),
                    Offset_ParDataEachPatch  |-> OffsetTable(cnt.NParForEachRank, NParVar) ])
    IN [ NParForEachRank |-> cnt.NParForEachRank,
         NPatchForEachRank |-> cnt.NPatchForEachRank,
         NSendPatchTotal |-> NSendPatchTotal ] @@ fill

\* the diagnostic checks of the two scans (lines 161-168, 236-244, 264-267)
Step1Error(r, FaLv) ==
    LET src == SrcList(r, FaLv, FaLv + 1)
    IN IF \E i \in DOMAIN src : patch[r][src[i].lv][src[i].PID].son # -1
       THEN "non-leaf patch has particles"
       ELSE IF \E i \in DOMAIN src : patch[r][src[i].lv][src[i].PID].NPar < 0
       THEN "NPar < 0"
       ELSE IF PrepareSend(r, FaLv).OffsetError
       THEN "Offset_NParEachPatch >= max"
       ELSE IF /\ arg.PredictPos /\ ~arg.JustCountNPar
               /\ \E i \in DOMAIN src : \E p \in DOMAIN patch[r][src[i].lv][src[i].PID].ParList :
                     Par[r].Time[patch[r][src[i].lv][src[i].PID].ParList[p]] < 0
       THEN "ParTime < 0.0"
       ELSE ""

\* ---------------------------------------------------------------- step 2
\* Par_LB_SendParticleData: rank r receives, from every rank q in rank order,
\* the records q addressed to r, in the order q wrote them
SegPatch(q, r) == [ i \in 0 .. (net[q].NPatchForEachRank[r] - 1) |->
                      PrefixSum(net[q].NPatchForEachRank, 1, r) + i ]
RECURSIVE GatherFrom(_, _, _)
GatherFrom(buf, r, q) ==
    IF q >= MPI_NRank THEN EmptyArr
    ELSE LET seg == SegPatch(q, r)
         IN Concat([ i \in DOMAIN seg |-> net[q][buf][seg[i]] ], GatherFrom(buf, r, q + 1))
RECURSIVE GatherData(_, _)
GatherData(r, q) ==
    IF q >= MPI_NRank THEN EmptyArr
    ELSE LET first == PrefixSum(net[q].NParForEachRank, NParVar, r)
             n     == net[q].NParForEachRank[r] * NParVar
         IN Concat([ i \in 0 .. (n - 1) |-> net[q].SendBuf_ParDataEachPatch[first + i] ],
                   GatherData(r, q + 1))

Par_LB_SendParticleData(r) ==
    [ RecvBuf_NPatchEachRank   |-> [ q \in Ranks |-> net[q].NPatchForEachRank[r] ],
      RecvBuf_NParEachPatch    |-> GatherFrom("SendBuf_NParEachPatch", r, 0),
      RecvBuf_LBIdxEachPatch   |-> GatherFrom("SendBuf_LBIdxEachPatch", r, 0),
      RecvBuf_ParDataEachPatch |-> IF arg.JustCountNPar THEN EmptyArr ELSE GatherData(r, 0),
      NRecvPatchTotal          |-> SumSet([ q \in Ranks |-> net[q].NPatchForEachRank[r] ], Ranks),
      NRecvParTotal            |-> SumSet([ q \in Ranks |-> net[q].NParForEachRank[r] ], Ranks) ]

\* The exchange promises no order of the records.  Arrivals(n) are the orders
\* in which n records may arrive: order[t] is the record, counted by sender
\* and by the sender's layout, that arrives at position t.
Arrivals(n) == { f \in [ 0 .. (n - 1) -> 0 .. (n - 1) ] :
                   \A i \in 0 .. (n - 1) : \A j \in 0 .. (n - 1) : f[i] = f[j] => i = j }
\* the values of record t of the field buffer
RecordData(rec, t) ==
    LET first == SumTo(rec.RecvBuf_NParEachPatch, t) * NParVar
    IN [ i \in 0 .. (rec.RecvBuf_NParEachPatch[t] * NParVar - 1) |-> rec.RecvBuf_ParDataEachPatch[first + i] ]
RECURSIVE ArrivedData(_, _, _)
ArrivedData(rec, order, t) ==
    IF t >= ALen(order) THEN EmptyArr
    ELSE Concat(RecordData(rec, order[t]), ArrivedData(rec, order, t + 1))
\* the receive buffers with the records in the order of arrival, the same
\* for the counts, the keys and the fields
Arrived(rec, order) ==
    [ rec EXCEPT
        !.RecvBuf_NParEachPatch  = [ t \in DOMAIN order |-> rec.RecvBuf_NParEachPatch[order[t]] ],
        !.RecvBuf_LBIdxEachPatch = [ t \in DOMAIN order |-> rec.RecvBuf_LBIdxEachPatch[order[t]] ],
        !.RecvBuf_ParDataEachPatch =
            IF arg.JustCountNPar THEN EmptyArr ELSE ArrivedData(rec, order, 0) ]

\* ---------------------------------------------------------------- step 3
\* Mis_Heapsort: the permutation that sorts Array in ascending order;
\* IdxTable[t] is the index the t-th smallest element had before the sort
\* (equal keys are taken in descending order of their old index)
RECURSIVE SortPerm(_, _)
SortPerm(Array, left) ==
    IF left = {} THEN EmptyArr
    ELSE LET m == CHOOSE i \in left :
                    \A j \in left : Array[j] > Array[i] \/ (Array[j] = Array[i] /\ j <= i)
         IN Concat([ k \in {0} |-> m ], SortPerm(Array, left \ {m}))
Mis_Heapsort_IdxTable(Array) == SortPerm(Array, DOMAIN Array)
Mis_Heapsort_Sorted(Array) ==
    LET t == Mis_Heapsort_IdxTable(Array) IN [ i \in DOMAIN Array |-> Array[t[i]] ]

\* Mis_Matching_int: for every Key[t], the index of the equal element of
\* Array, or -1 if there is none (both sorted, the elements of Array distinct)
Mis_Matching_int(Array, Key) ==
    [ t \in DOMAIN Key |->
        IF \E i \in DOMAIN Array : Array[i] = Key[t]
        THEN CHOOSE i \in DOMAIN Array : Array[i] = Key[t]
        ELSE -1 ]

\* amr->LB->IdxList_Real[lv] and IdxList_Real_IdxTable[lv]: the keys of the
\* real patches in ascending order, and the PID of each
IdxList_Real_IdxTable(r, lv) ==
    Mis_Heapsort_IdxTable([ PID \in RealPIDs(r, lv) |-> patch[r][lv][PID].LB_Idx ])
IdxList_Real(r, lv) ==
    LET t == IdxList_Real_IdxTable(r, lv) IN [ i \in DOMAIN t |-> patch[r][lv][t[i]].LB_Idx ]

\* 3-1. (lines 316-323)
SortAndMatch(r, FaLv) ==
    LET table  == Mis_Heapsort_IdxTable(loc[r].RecvBuf_LBIdxEachPatch)
        sorted == Mis_Heapsort_Sorted(loc[r].RecvBuf_LBIdxEachPatch)
    IN [ RecvBuf_LBIdxEachPatch          |-> sorted,
         RecvBuf_LBIdxEachPatch_IdxTable |-> table,
         Match_LBIdxEachPatch            |-> Mis_Matching_int(IdxList_Real(r, FaLv), sorted) ]

\* faulty seeds of the count: one that forgets the particles waiting in the
\* patch, one that also seeds the leaves
SeedCount_NoResident(r, FaLv, PID) ==
    IF PID \in RealPIDs(r, FaLv) /\ patch[r][FaLv][PID].son # -1
    THEN 0
    ELSE NPar_Copy[r][FaLv][PID]
SeedCount_Leaf(r, FaLv, PID) ==
    IF PID \in RealPIDs(r, FaLv)
    THEN patch[r][FaLv][PID].NPar
    ELSE NPar_Copy[r][FaLv][PID]

\* line 335: NPar_Copy of the non-leaf real patches starts from NPar
SeedCount(r, FaLv, PID) ==
    IF PID \in RealPIDs(r, FaLv) /\ patch[r][FaLv][PID].son # -1
    THEN patch[r][FaLv][PID].NPar
    ELSE NPar_Copy[r][FaLv][PID]

\* faulty bookkeeping of the sorted records: one that takes the sorted
\* position for the arrival position, one that counts records for particles
RecvBuf_Idx_Sorted(r, t) == t
RecvCount_One(r, t) == 1

\* line 349: the position a sorted record had in the receive buffers
RecvBuf_Idx(r, t) == loc[r].RecvBuf_LBIdxEachPatch_IdxTable[t]
\* line 357: the number of particles of that record
RecvCount(r, t) == loc[r].RecvBuf_NParEachPatch[RecvBuf_Idx(r, t)]

\* 3-2. the loop over the sorted records (lines 341-361); st holds the
\* NPar_Copy of level FaLv, FaPIDList and the first error met
RECURSIVE Accumulate(_, _, _, _)
Accumulate(r, FaLv, t, st) ==
    IF t >= loc[r].NRecvPatchTotal \/ st.err # "" THEN st
    ELSE LET m == loc[r].Match_LBIdxEachPatch[t]
         IN IF m = -1
            THEN [ st EXCEPT !.err = IF DEBUG_PARTICLE THEN "found no match" ELSE "undefined behaviour" ]
            ELSE LET FaPID_Match == IdxList_Real_IdxTable(r, FaLv)[m]
                 IN IF DEBUG_PARTICLE /\ patch[r][FaLv][FaPID_Match].son = -1
                    THEN [ st EXCEPT !.err = "SonPID == -1" ]
                    ELSE Accumulate(r, FaLv, t + 1,
                           [ NPar_Copy |-> [ st.NPar_Copy EXCEPT ![FaPID_Match] = @ + RecvCount(r, t) ],
                             FaPIDList |-> [ st.FaPIDList EXCEPT ![RecvBuf_Idx(r, t)] = FaPID_Match ],
                             err       |-> "" ])

\* the seeds of level FaLv (lines 334-335) and FaPIDList before the loop
\* (lines 328, 337-339)
Seed(r, FaLv) == [ PID \in DOMAIN NPar_Copy[r][FaLv] |-> SeedCount(r, FaLv, PID) ]
NewFaPIDList(r) == NewArr(loc[r].NRecvPatchTotal, IF DEBUG_PARTICLE THEN -1 ELSE UNINIT)

\* a faulty loop that is left out when only the numbers are asked for
Reconcile_FullOnly(r, FaLv) ==
    IF arg.JustCountNPar
    THEN [ NPar_Copy |-> NPar_Copy[r][FaLv], FaPIDList |-> loc[r].FaPIDList, err |-> "" ]
    ELSE Accumulate(r, FaLv, 0,
            [ NPar_Copy |-> NPar_Copy[r][FaLv], FaPIDList |-> loc[r].FaPIDList, err |-> "" ])
\* the loop of lines 341-361 on the seeded NPar_Copy, in either mode
Reconcile(r, FaLv) ==
    Accumulate(r, FaLv, 0,
       [ NPar_Copy |-> NPar_Copy[r][FaLv], FaPIDList |-> loc[r].FaPIDList, err |-> "" ])

\* a faulty step 3-3 that allocates one element too many
AllocCopy_Long(r, FaLv, PID) ==
    IF PID \in RealPIDs(r, FaLv) /\ NPar_Copy[r][FaLv][PID] > 0
    THEN [ v \in Vars |->
             [ alloc  |-> TRUE,
               cell   |-> NewArr(NPar_Copy[r][FaLv][PID] + 1, UNINIT),
               nwrite |-> NewArr(NPar_Copy[r][FaLv][PID] + 1, 0) ] ]
    ELSE ParMassPos_Copy[r][FaLv][PID]

\* 3-3. allocate ParMassPos_Copy and reset NPar_Copy (lines 372-384)
NewReal(n) == [ alloc |-> TRUE, cell |-> NewArr(n, UNINIT), nwrite |-> NewArr(n, 0) ]
AllocCopy(r, FaLv, PID) ==
    IF PID \in RealPIDs(r, FaLv) /\ NPar_Copy[r][FaLv][PID] > 0
    THEN [ v \in Vars |-> NewReal(NPar_Copy[r][FaLv][PID]) ]
    ELSE ParMassPos_Copy[r][FaLv][PID]
\* a faulty step 3-3 that leaves the total in NPar_Copy
AllocCount_NoReset(r, FaLv, PID) == NPar_Copy[r][FaLv][PID]
AllocCount(r, FaLv, PID) ==
    IF PID \in RealPIDs(r, FaLv) /\ NPar_Copy[r][FaLv][PID] > 0
    THEN 0
    ELSE NPar_Copy[r][FaLv][PID]

\* write the values val[j], j in lo..hi-1, into one array of ParMassPos_Copy;
\* a write outside the allocated range changes nothing here and is reported
\* by WriteOutside
WriteRange(a, lo, hi, val) ==
    [ alloc  |-> a.alloc,
      cell   |-> [ j \in DOMAIN a.cell |-> IF lo <= j /\ j < hi THEN val[j] ELSE a.cell[j] ],
      nwrite |-> [ j \in DOMAIN a.nwrite |-> IF lo <= j /\ j < hi THEN a.nwrite[j] + 1 ELSE a.nwrite[j] ] ]
WriteOutside(a, lo, hi) == lo < hi /\ (~a.alloc \/ lo < 0 \/ hi > ALen(a.cell))

\* EdgeL / EdgeR of a patch
EdgeL(lv, LB_Idx) == Corner(lv, LB_Idx)
EdgeR(lv, LB_Idx) == [ d \in 0 .. 2 |-> Corner(lv, LB_Idx)[d] + PatchWidth(lv) ]

\* the diagnostic checks on the particles of one received record (lines 399-440)
StoreError(r, FaLv, FaPID_Match, copy, n, lo, hi, first) ==
    IF n <= 0 THEN "RecvBuf_NParEachPatch <= 0"
    ELSE IF \E v \in Vars : ~copy[v].alloc THEN "particle parameters have NOT been initialized"
    ELSE IF \E p \in lo .. (hi - 1) :
              loc[r].RecvBuf_ParDataEachPatch[first + (p - lo) * NParVar + PAR_MASS] < 0
    THEN "found inactive particle"
    ELSE IF /\ ~arg.PredictPos
            /\ \E p \in lo .. (hi - 1) : \E d \in 0 .. 2 :
                 LET pos == loc[r].RecvBuf_ParDataEachPatch[first + (p - lo) * NParVar + PAR_POSX + d]
                 IN \/ pos <  EdgeL(FaLv, patch[r][FaLv][FaPID_Match].LB_Idx)[d]
                    \/ pos >= EdgeR(FaLv, patch[r][FaLv][FaPID_Match].LB_Idx)[d]
    THEN "wrong home patch"
    ELSE ""

\* 3-4. store the received records in arrival order (lines 391-442); st holds
\* NPar_Copy and ParMassPos_Copy of level FaLv, the position of RecvPtr, the
\* first error met and whether a write went outside an array
RECURSIVE StoreScan(_, _, _, _)
StoreScan(r, FaLv, t, st) ==
    IF t >= loc[r].NRecvPatchTotal \/ st.err # "" THEN st
    ELSE LET FaPID_Match   == loc[r].FaPIDList[t]
             n             == loc[r].RecvBuf_NParEachPatch[t]
             NPar_Copy_Old == st.NPar_Copy[FaPID_Match]
             NPar_Copy_New == NPar_Copy_Old + n
             copy          == st.Copy[FaPID_Match]
             e             == IF DEBUG_PARTICLE
                              THEN StoreError(r, FaLv, FaPID_Match, copy, n, NPar_Copy_Old, NPar_Copy_New, st.RecvPtr)
                              ELSE ""
         IN StoreScan(r, FaLv, t + 1,
              [ NPar_Copy |-> [ st.NPar_Copy EXCEPT ![FaPID_Match] = NPar_Copy_New ],
                Copy      |-> [ st.Copy EXCEPT ![FaPID_Match] =
                                 [ v \in Vars |->
                                     WriteRange(copy[v], NPar_Copy_Old, NPar_Copy_New,
                                        [ p \in NPar_Copy_Old .. (NPar_Copy_New - 1) |->
                                            loc[r].RecvBuf_ParDataEachPatch[
                                               st.RecvPtr + (p - NPar_Copy_Old) * NParVar + v ] ]) ] ],
                RecvPtr   |-> st.RecvPtr + n * NParVar,
                err       |-> e,
                ub        |-> st.ub \/ \E v \in Vars : WriteOutside(copy[v], NPar_Copy_Old, NPar_Copy_New) ])

StoreReceived(r, FaLv) ==
    StoreScan(r, FaLv, 0,
       [ NPar_Copy |-> NPar_Copy[r][FaLv], Copy |-> ParMassPos_Copy[r][FaLv],
         RecvPtr |-> 0, err |-> "", ub |-> FALSE ])

\* ---------------------------------------------------------------- step 4
\* the particles residing in the non-leaf real patches of FaLv (lines 449-477)
MergePIDs(r, FaLv) ==
    { PID \in RealPIDs(r, FaLv) : patch[r][FaLv][PID].son # -1 /\ patch[r][FaLv][PID].NPar > 0 }

MergeCopy(r, FaLv, PID) ==
    IF PID \notin MergePIDs(r, FaLv) THEN ParMassPos_Copy[r][FaLv][PID]
    ELSE LET P   == patch[r][FaLv][PID]
             idx == NPar_Copy[r][FaLv][PID]
         IN [ v \in Vars |->
                WriteRange(ParMassPos_Copy[r][FaLv][PID][v], idx, idx + P.NPar,
                   [ j \in idx .. (idx + P.NPar - 1) |-> Par[r].ParVar[v][P.ParList[j - idx]] ]) ]
\* a faulty step 4-3 that stores the waiting particles and does not count them
MergeCount_Keep(r, FaLv, PID) == NPar_Copy[r][FaLv][PID]
MergeCount(r, FaLv, PID) ==
    IF PID \notin MergePIDs(r, FaLv) THEN NPar_Copy[r][FaLv][PID]
    ELSE NPar_Copy[r][FaLv][PID] + patch[r][FaLv][PID].NPar
MergeOutside(r, FaLv) ==
    \E PID \in MergePIDs(r, FaLv) : \E v \in Vars :
        WriteOutside(ParMassPos_Copy[r][FaLv][PID][v], NPar_Copy[r][FaLv][PID],
                     NPar_Copy[r][FaLv][PID] + patch[r][FaLv][PID].NPar)
\* a faulty check that does not ask for the integrator
MergeError_AnyInteg(r, FaLv) ==
    IF \E PID \in MergePIDs(r, FaLv) : \E p \in DOMAIN patch[r][FaLv][PID].ParList :
          Par[r].Time[patch[r][FaLv][PID].ParList[p]] >= 0
    THEN "This particle shouldn't be here"
    ELSE ""
\* 4-1. (lines 459-463)
MergeError(r, FaLv) ==
    IF /\ Par[r].Integ = "PAR_INTEG_KDK"
       /\ \E PID \in MergePIDs(r, FaLv) : \E p \in DOMAIN patch[r][FaLv][PID].ParList :
             Par[r].Time[patch[r][FaLv][PID].ParList[p]] >= 0
    THEN "This particle shouldn't be here"
    ELSE ""

\* ---------------------------------------------------------------- step 5
\* lines 484-488
NParLocal_Get(r, FaLv) ==
    SumSet([ PID \in RealPIDs(r, FaLv) |->
               IF patch[r][FaLv][PID].son = -1 THEN patch[r][FaLv][PID].NPar
               ELSE NPar_Copy[r][FaLv][PID] ], RealPIDs(r, FaLv))
\* amr->Par->NPar_Lv[lv]: number of particles of rank r at level lv
NPar_Lv(r, lv) == SumSet([ PID \in RealPIDs(r, lv) |-> patch[r][lv][PID].NPar ], RealPIDs(r, lv))
NParLocal_Check(r, FaLv) == SumSet([ lv \in FaLv .. MAX_LEVEL |-> NPar_Lv(r, lv) ], FaLv .. MAX_LEVEL)

\* ---------------------------------------------------------------- step 6
\* amr->Par->R2B_Buff_PIDList[FaLv][t]: the sibling-buffer patches of level
\* FaLv (t = 0) and the father-sibling-buffer patches of level FaLv-1 (t = 1)
R2B_Buff_Lv(FaLv, t) == FaLv - t
R2B_Buff_PIDList(r, FaLv, t) ==
    IF R2B_Buff_Lv(FaLv, t) < 0 THEN {}
    ELSE LET lv == R2B_Buff_Lv(FaLv, t)
         IN { PID \in DOMAIN patch[r][lv] :
                /\ ~patch[r][lv][PID].real
                /\ IF t = 0 THEN patch[r][lv][PID].LB_Idx % 4 \in {0, 1}
                   ELSE patch[r][lv][PID].LB_Idx % 2 = 1 /\ patch[r][lv][PID].son = -1 }

\* the real patch a buffer patch mirrors: its rank and its PID there
RealRankOf(lv, LB_Idx) == LB_Index2Rank(lv, LB_Idx)
RealPIDOf(lv, LB_Idx) ==
    CHOOSE PID \in RealPIDs(RealRankOf(lv, LB_Idx), lv) :
        patch[RealRankOf(lv, LB_Idx)][lv][PID].LB_Idx = LB_Idx

\* Par_LB_CollectParticleFromRealPatch: what the real patch sends for one of
\* its buffer copies: its own particles if it is a leaf, its collected
\* particles otherwise
R2B_Count(lv, LB_Idx) ==
    LET q == RealRankOf(lv, LB_Idx)
        PID == RealPIDOf(lv, LB_Idx)
    IN IF patch[q][lv][PID].son = -1 THEN patch[q][lv][PID].NPar
       ELSE IF NPar_Copy[q][lv][PID] < 0 THEN 0 ELSE NPar_Copy[q][lv][PID]
R2B_Value(lv, LB_Idx, v, i) ==
    LET q == RealRankOf(lv, LB_Idx)
        PID == RealPIDOf(lv, LB_Idx)
    IN IF patch[q][lv][PID].son = -1 THEN SendValue(q, patch[q][lv][PID].ParList[i], v)
       ELSE IF i \in DOMAIN ParMassPos_Copy[q][lv][PID][v].cell
            THEN ParMassPos_Copy[q][lv][PID][v].cell[i]
            ELSE UNINIT

Par_LB_CollectParticleFromRealPatch_Count(r, lv, list, PID) ==
    IF PID \in list THEN R2B_Count(lv, patch[r][lv][PID].LB_Idx) ELSE NPar_Copy[r][lv][PID]
Par_LB_CollectParticleFromRealPatch_Copy(r, lv, list, PID) ==
    IF PID \in list /\ R2B_Count(lv, patch[r][lv][PID].LB_Idx) > 0
    THEN [ v \in Vars |->
             [ alloc  |-> TRUE,
               cell   |-> [ i \in 0 .. (R2B_Count(lv, patch[r][lv][PID].LB_Idx) - 1) |->
                              R2B_Value(lv, patch[r][lv][PID].LB_Idx, v, i) ],
               nwrite |-> NewArr(R2B_Count(lv, patch[r][lv][PID].LB_Idx), 1) ] ]
    ELSE ParMassPos_Copy[r][lv][PID]

\* faulty conditions that forget the count-only mode
DelegationCalls_Always(FaLv) ==
    Concat(IF arg.SibBufPatch THEN [ i \in 0 .. 0 |-> [ lv |-> FaLv, t |-> 0 ] ] ELSE EmptyArr,
           IF arg.FaSibBufPatch /\ FaLv > 0
           THEN [ i \in 0 .. 0 |-> [ lv |-> FaLv - 1, t |-> 1 ] ] ELSE EmptyArr)
\* the calls of Par_LB_CollectParticleFromRealPatch, in order (lines 110-124
\* and 502-517): level and list (0: sibling-buffer, 1: father-sibling-buffer)
DelegationCalls(FaLv) ==
    Concat(IF arg.SibBufPatch /\ ~arg.JustCountNPar
           THEN [ i \in 0 .. 0 |-> [ lv |-> FaLv, t |-> 0 ] ] ELSE EmptyArr,
           IF arg.FaSibBufPatch /\ FaLv > 0 /\ ~arg.JustCountNPar
           THEN [ i \in 0 .. 0 |-> [ lv |-> FaLv - 1, t |-> 1 ] ] ELSE EmptyArr)

\* the lists the call works on (lines 111-124 and 504-517)
BufList(r, FaLv, t) ==
    IF \E i \in DOMAIN DelegationCalls(FaLv) : DelegationCalls(FaLv)[i].t = t
    THEN R2B_Buff_PIDList(r, FaLv, t) ELSE {}
\* the list of level lv among the two
BufListAt(r, FaLv, lv) ==
    IF lv = FaLv THEN BufList(r, FaLv, 0)
    ELSE IF lv = FaLv - 1 THEN BufList(r, FaLv, 1)
    ELSE {}
Delegates == ALen(DelegationCalls(arg.lv)) > 0

CollectBuffer_Count(r, FaLv) ==
    [ lv \in Levels |->
        LET list == BufListAt(r, FaLv, lv)
        IN IF list = {} THEN NPar_Copy[r][lv]
           ELSE [ PID \in DOMAIN patch[r][lv] |->
                    Par_LB_CollectParticleFromRealPatch_Count(r, lv, list, PID) ] ]
CollectBuffer_Copy(r, FaLv) ==
    [ lv \in Levels |->
        LET list == BufListAt(r, FaLv, lv)
        IN IF list = {} THEN ParMassPos_Copy[r][lv]
           ELSE [ PID \in DOMAIN patch[r][lv] |->
                    Par_LB_CollectParticleFromRealPatch_Copy(r, lv, list, PID) ] ]

\* ------------------------------------- Par_LB_CollectParticle2OneLevel_FreeMemory
\* a faulty release that forgets the father-sibling-buffer patches
FreeList_NoFather(r, lv, TLv) ==
    IF TLv = lv
    THEN RealPIDs(r, lv) \cup (IF arg.SibBufPatch THEN R2B_Buff_PIDList(r, lv, 0) ELSE {})
    ELSE {}
\* the patches of level TLv the routine resets (lines 557-613)
FreeList(r, lv, TLv) ==
    IF TLv = lv
    THEN RealPIDs(r, lv) \cup (IF arg.SibBufPatch THEN R2B_Buff_PIDList(r, lv, 0) ELSE {})
    ELSE IF TLv = lv - 1 /\ arg.FaSibBufPatch THEN R2B_Buff_PIDList(r, lv, 1)
    ELSE {}
\* a faulty release that frees the arrays of both buffer lists whatever the
\* two flags say
FreeCopy_IgnoreFlags(r, lv) ==
    [ TLv \in Levels |->
        [ PID \in DOMAIN patch[r][TLv] |->
            IF \/ PID \in FreeList(r, lv, TLv)
               \/ TLv = lv /\ PID \in R2B_Buff_PIDList(r, lv, 0)
               \/ TLv = lv - 1 /\ PID \in R2B_Buff_PIDList(r, lv, 1)
            THEN NullCopy ELSE ParMassPos_Copy[r][TLv][PID] ] ]
FreeCopy(r, lv) ==
    [ TLv \in Levels |->
        LET list == FreeList(r, lv, TLv)
        IN IF list = {} THEN ParMassPos_Copy[r][TLv]
           ELSE [ PID \in DOMAIN patch[r][TLv] |->
                    IF PID \in list THEN NullCopy ELSE ParMassPos_Copy[r][TLv][PID] ] ]
\* a faulty release that resets the counts to 0
FreeCount_Zero(r, lv) ==
    [ TLv \in Levels |->
        [ PID \in DOMAIN patch[r][TLv] |->
            IF PID \in FreeList(r, lv, TLv) THEN 0 ELSE NPar_Copy[r][TLv][PID] ] ]
FreeCount(r, lv) ==
    [ TLv \in Levels |->
        LET list == FreeList(r, lv, TLv)
        IN IF list = {} THEN NPar_Copy[r][TLv]
           ELSE [ PID \in DOMAIN patch[r][TLv] |->
                    IF PID \in list THEN NOT_SET ELSE NPar_Copy[r][TLv][PID] ] ]
\* number of delete [] executed
FreeDeletes(r, lv) ==
    Cardinality({ x \in UNION { {TLv} \X FreeList(r, lv, TLv) \X Vars : TLv \in Levels } :
                    ParMassPos_Copy[r][x[1]][x[2]][x[3]].alloc })
\* the check at the end (lines 618-634), on the state the routine leaves
FreeError(r, lv, copy, count) ==
    IF \E TLv \in {lv, lv - 1} \cap Levels : \E PID \in DOMAIN patch[r][TLv] : \E v \in Vars :
          copy[TLv][PID][v].alloc
    THEN "ParMassPos_Copy != NULL"
    ELSE IF \E TLv \in {lv, lv - 1} \cap Levels : \E PID \in DOMAIN patch[r][TLv] :
          count[TLv][PID] # NOT_SET
    THEN "NPar_Copy != -1"
    ELSE ""

\* ------------------------------------------------------------------ actions
Goto(r, to) == pc' = [ pc EXCEPT ![r] = to ]
Abort(r, msg) == /\ pc' = [ pc EXCEPT ![r] = "abort" ]
                 /\ err' = [ err EXCEPT ![r] = msg ]
Static == UNCHANGED <<DEBUG_PARTICLE, LB_CutPoint, NPatchComma, patch, Par>>

\* the driver calls Par_LB_CollectParticle2OneLevel on all ranks
CallCollect ==
    /\ AllIdle /\ ghost.calls < ghost.budget
    /\ \E FaLv \in 0 .. (MAX_LEVEL + 1) : \E PredictPos, SibBufPatch, FaSibBufPatch, JustCountNPar \in BOOLEAN :
         /\ arg.op # "none" => FaLv = arg.lv
         /\ arg.op = "collect" => /\ PredictPos = arg.PredictPos
                                  /\ SibBufPatch = arg.SibBufPatch
                                  /\ FaSibBufPatch = arg.FaSibBufPatch
         /\ arg' = [ op |-> "collect", lv |-> FaLv, PredictPos |-> PredictPos, TargetTime |-> 1,
                  SibBufPatch |-> SibBufPatch, FaSibBufPatch |-> FaSibBufPatch,
                  JustCountNPar |-> JustCountNPar ]
    /\ pc' = [ r \in Ranks |-> "enter" ]
    /\ net' = [ r \in Ranks |-> NoNet ]
    /\ ghost' = [ ghost EXCEPT !.calls = @ + 1, !.clean0 = AllClean, !.clean1 = ghost.clean0, !.prev = arg,
                              !.nexch = [ r \in Ranks |-> 0 ], !.deleg = [ r \in Ranks |-> EmptyArr ],
                              !.heap = [ r \in Ranks |-> NoHeap ] ]
    /\ UNCHANGED <<NPar_Copy, ParMassPos_Copy, loc, err>>
    /\ Static

\* the driver calls Par_LB_CollectParticle2OneLevel_FreeMemory on all ranks
CallFree ==
    /\ AllIdle /\ ghost.calls < ghost.budget
    /\ \E lv \in Levels : \E SibBufPatch, FaSibBufPatch \in BOOLEAN :
         /\ arg.op # "none" => lv = arg.lv
         /\ arg' = [ op |-> "free", lv |-> lv, PredictPos |-> FALSE, TargetTime |-> 0,
                  SibBufPatch |-> SibBufPatch, FaSibBufPatch |-> FaSibBufPatch,
                  JustCountNPar |-> FALSE ]
    /\ pc' = [ r \in Ranks |-> "free" ]
    /\ net' = [ r \in Ranks |-> NoNet ]
    /\ ghost' = [ ghost EXCEPT !.calls = @ + 1, !.clean0 = AllClean, !.clean1 = ghost.clean0, !.prev = arg,
                              !.nexch = [ r \in Ranks |-> 0 ], !.deleg = [ r \in Ranks |-> EmptyArr ],
                              !.heap = [ r \in Ranks |-> NoHeap ] ]
    /\ UNCHANGED <<NPar_Copy, ParMassPos_Copy, loc, err>>
    /\ Static

\* a rank is inside Par_LB_CollectParticleFromRealPatch, or past it
DelegationReady == \A q \in Ranks : pc[q] \in {"s0", "s6", "s7", "idle"}

\* a rank that cannot step: it has returned or stopped, or it waits for the
\* other ranks in the exchange, in the reduction or in the buffer collection
Blocked(q) ==
    \/ pc[q] \in {"idle", "abort"}
    \/ pc[q] = "wait" /\ \E s \in Ranks : ~net[s].posted
    \/ pc[q] \in {"s0", "s6"} /\ Delegates /\ ~DelegationReady
    \/ pc[q] = "s5" /\ q = 0 /\ \E s \in Ranks \ {0} : ~net[s].reduced
\* The ranks share no memory, so the order of their steps between two
\* meetings cannot be observed: the lowest rank that can step runs, unless
\* the run was started with the ranks free to step in any order.
Turn(r) == ghost.inorder => \A q \in Ranks : q < r => Blocked(q)

Runs(r) == NoAbort /\ Turn(r)

\* faulty entry checks that look at the arguments only
EnterError_ArgsOnly(r, FaLv) ==
    IF arg.JustCountNPar /\ (arg.PredictPos \/ arg.SibBufPatch \/ arg.FaSibBufPatch)
    THEN "JustCountNPar does NOT work with the other options"
    ELSE ""

\* lines 82-103: the checks at the entry of a diagnostic build
EnterError(r, FaLv) ==
    IF arg.JustCountNPar /\ arg.PredictPos THEN "JustCountNPar does NOT work with PredictPos"
    ELSE IF arg.JustCountNPar /\ arg.SibBufPatch THEN "JustCountNPar does NOT work with SibBufPatch"
    ELSE IF arg.JustCountNPar /\ arg.FaSibBufPatch THEN "JustCountNPar does NOT work with FaSibBufPatch"
    ELSE IF \E FaPID \in RealPIDs(r, FaLv) : ~IsClean(r, FaLv, FaPID)
    THEN "particle parameters have been initialized already"
    ELSE ""

\* a faulty entry without step 0: the target level MAX_LEVEL is treated as
\* the levels below it
Collect_Enter_NoTop(r) ==
    /\ Runs(r) /\ pc[r] = "enter"
    /\ IF arg.lv > MAX_LEVEL THEN Goto(r, "idle") /\ UNCHANGED err
       ELSE IF DEBUG_PARTICLE /\ EnterError(r, arg.lv) # "" THEN Abort(r, EnterError(r, arg.lv))
       ELSE Goto(r, "s1") /\ UNCHANGED err
    /\ UNCHANGED <<NPar_Copy, ParMassPos_Copy, arg, loc, net, ghost>>
    /\ Static

\* lines 71-127
Collect_Enter(r) ==
    /\ Runs(r) /\ pc[r] = "enter"
    /\ IF arg.lv > MAX_LEVEL THEN Goto(r, "idle") /\ UNCHANGED err
       ELSE IF DEBUG_PARTICLE /\ EnterError(r, arg.lv) # "" THEN Abort(r, EnterError(r, arg.lv))
       ELSE IF arg.lv = MAX_LEVEL THEN Goto(r, "s0") /\ UNCHANGED err
       ELSE Goto(r, "s1") /\ UNCHANGED err
    /\ UNCHANGED <<NPar_Copy, ParMassPos_Copy, arg, loc, net, ghost>>
    /\ Static

\* lines 108-127: FaLv == MAX_LEVEL, only the buffer patches
Collect_MaxLevel(r) ==
    /\ Runs(r) /\ pc[r] = "s0"
    /\ Delegates => DelegationReady
    /\ NPar_Copy' = [ NPar_Copy EXCEPT ![r] = CollectBuffer_Count(r, arg.lv) ]
    /\ ParMassPos_Copy' = [ ParMassPos_Copy EXCEPT ![r] = CollectBuffer_Copy(r, arg.lv) ]
    /\ Goto(r, "idle")
    /\ ghost' = [ ghost EXCEPT !.deleg[r] = Concat(@, DelegationCalls(arg.lv)) ]
    /\ UNCHANGED <<arg, loc, net, err>>
    /\ Static

\* step 1, lines 131-282
Collect_Step1(r) ==
    /\ Runs(r) /\ pc[r] = "s1"
    /\ IF DEBUG_PARTICLE /\ Step1Error(r, arg.lv) # ""
       THEN Abort(r, Step1Error(r, arg.lv)) /\ UNCHANGED <<loc, Par>>
       ELSE /\ loc' = [ loc EXCEPT ![r] = PrepareSend(r, arg.lv) ]
            /\ Par' = [ Par EXCEPT ![r] = RepositoryAfterFill(r, arg.lv) ]
            /\ Goto(r, "s2") /\ UNCHANGED err
    /\ ghost' = [ ghost EXCEPT !.heap[r] = HeapStep(@, Step1_News, Step1_Uses, << >>) ]
    /\ UNCHANGED <<NPar_Copy, ParMassPos_Copy, arg, net>>
    /\ UNCHANGED <<DEBUG_PARTICLE, LB_CutPoint, NPatchComma, patch>>

\* a faulty step 2 in which a rank with nothing to send stays out of the exchange
Collect_Step2_Send_SkipEmpty(r) ==
    /\ Runs(r) /\ pc[r] = "s2"
    /\ IF loc[r].NSendPatchTotal = 0
       THEN UNCHANGED <<net, ghost>>
       ELSE /\ net' = [ net EXCEPT ![r] =
                        [ NoNet EXCEPT !.posted = TRUE,
                            !.NPatchForEachRank = loc[r].NPatchForEachRank,
                            !.NParForEachRank = loc[r].NParForEachRank,
                            !.SendBuf_NParEachPatch = loc[r].SendBuf_NParEachPatch,
                            !.SendBuf_LBIdxEachPatch = loc[r].SendBuf_LBIdxEachPatch,
                            !.SendBuf_ParDataEachPatch = loc[r].SendBuf_ParDataEachPatch ] ]
            /\ ghost' = [ ghost EXCEPT !.nexch[r] = @ + 1 ]
    /\ Goto(r, "wait")
    /\ UNCHANGED <<NPar_Copy, ParMassPos_Copy, arg, loc, err>>
    /\ Static

\* step 2, lines 300-303: the rank hands its send buffers to the exchange
Collect_Step2_Send(r) ==
    /\ Runs(r) /\ pc[r] = "s2"
    /\ net' = [ net EXCEPT ![r] =
                 [ NoNet EXCEPT !.posted = TRUE,
                     !.NPatchForEachRank = loc[r].NPatchForEachRank,
                     !.NParForEachRank = loc[r].NParForEachRank,
                     !.SendBuf_NParEachPatch = loc[r].SendBuf_NParEachPatch,
                     !.SendBuf_LBIdxEachPatch = loc[r].SendBuf_LBIdxEachPatch,
                     !.SendBuf_ParDataEachPatch = loc[r].SendBuf_ParDataEachPatch ] ]
    /\ Goto(r, "wait")
    /\ ghost' = [ ghost EXCEPT !.nexch[r] = @ + 1, !.heap[r] = HeapUse(@, Step2_Uses) ]
    /\ UNCHANGED <<NPar_Copy, ParMassPos_Copy, arg, loc, err>>
    /\ Static

\* a faulty exchange that returns as soon as the rank itself has handed over
Collect_Step2_Recv_NoWait(r) ==
    /\ Runs(r) /\ pc[r] = "wait"
    /\ net[r].posted
    /\ \E order \in Arrivals(Par_LB_SendParticleData(r).NRecvPatchTotal) :
         loc' = [ loc EXCEPT ![r] =
                    [ NParForEachRank |-> loc[r].NParForEachRank,
                      Offset_NParEachPatch |-> loc[r].Offset_NParEachPatch,
                      Offset_ParDataEachPatch |-> loc[r].Offset_ParDataEachPatch,
                      Arrival |-> order ]
                    @@ Arrived(Par_LB_SendParticleData(r), order) ]
    /\ Goto(r, "s3_1")
    /\ UNCHANGED <<NPar_Copy, ParMassPos_Copy, arg, net, ghost, err>>
    /\ Static

\* step 2, lines 300-310: the exchange returns and the send buffers are freed
Collect_Step2_Recv(r) ==
    /\ Runs(r) /\ pc[r] = "wait"
    /\ \A q \in Ranks : net[q].posted
    /\ \E order \in Arrivals(Par_LB_SendParticleData(r).NRecvPatchTotal) :
         loc' = [ loc EXCEPT ![r] =
                    [ NParForEachRank |-> loc[r].NParForEachRank,
                      Offset_NParEachPatch |-> loc[r].Offset_NParEachPatch,
                      Offset_ParDataEachPatch |-> loc[r].Offset_ParDataEachPatch,
                      Arrival |-> order ]
                    @@ Arrived(Par_LB_SendParticleData(r), order) ]
    /\ Goto(r, "s3_1")
    /\ ghost' = [ ghost EXCEPT !.heap[r] = HeapStep(@, Exchange_News, {}, Step2_2_Deletes) ]
    /\ UNCHANGED <<NPar_Copy, ParMassPos_Copy, arg, net, err>>
    /\ Static

\* step 3-1, lines 316-323
Collect_Step3_1(r) ==
    /\ Runs(r) /\ pc[r] = "s3_1"
    /\ loc' = [ loc EXCEPT ![r] = SortAndMatch(r, arg.lv) @@ loc[r] ]
    /\ Goto(r, "s3_2")
    /\ ghost' = [ ghost EXCEPT !.heap[r] = HeapStep(@, Step3_1_News, Step3_1_Uses, << >>) ]
    /\ UNCHANGED <<NPar_Copy, ParMassPos_Copy, arg, net, err>>
    /\ Static

\* lines 364-367
FaPIDListError(r, FaLv, FaPIDList) ==
    IF \E t \in DOMAIN FaPIDList : FaPIDList[t] < 0 \/ FaPIDList[t] >= NPatchComma[r][FaLv]
    THEN "incorrect PID" ELSE ""

\* step 3-2, lines 328-339: the seeds
Collect_Step3_2_Seed(r) ==
    /\ Runs(r) /\ pc[r] = "s3_2"
    /\ NPar_Copy' = [ NPar_Copy EXCEPT ![r][arg.lv] = Seed(r, arg.lv) ]
    /\ loc' = [ loc EXCEPT ![r] = [ FaPIDList |-> NewFaPIDList(r) ] @@ loc[r] ]
    /\ Goto(r, "s3_2a")
    /\ ghost' = [ ghost EXCEPT !.heap[r] = HeapNew(@, Step3_2_News) ]
    /\ UNCHANGED <<ParMassPos_Copy, arg, net, err>>
    /\ Static

\* a faulty step 3-2 that goes on after an error
Collect_Step3_2_NoStop(r) ==
    /\ Runs(r) /\ pc[r] = "s3_2a"
    /\ LET res == Reconcile(r, arg.lv)
       IN /\ NPar_Copy' = [ NPar_Copy EXCEPT ![r][arg.lv] = res.NPar_Copy ]
          /\ loc' = [ loc EXCEPT ![r] = [ FaPIDList |-> res.FaPIDList ] @@ loc[r] ]
          /\ Goto(r, "s3_3") /\ UNCHANGED err
    /\ ghost' = [ ghost EXCEPT !.heap[r] = HeapUse(@, Step3_2_Uses) ]
    /\ UNCHANGED <<ParMassPos_Copy, arg, net>>
    /\ Static

\* step 3-2, lines 341-368: the loop over the records
Collect_Step3_2(r) ==
    /\ Runs(r) /\ pc[r] = "s3_2a"
    /\ LET res == Reconcile(r, arg.lv)
           e   == IF res.err # "" THEN res.err
                  ELSE IF DEBUG_PARTICLE THEN FaPIDListError(r, arg.lv, res.FaPIDList) ELSE ""
       IN /\ NPar_Copy' = [ NPar_Copy EXCEPT ![r][arg.lv] = res.NPar_Copy ]
          /\ loc' = [ loc EXCEPT ![r] = [ FaPIDList |-> res.FaPIDList ] @@ loc[r] ]
          /\ IF e # "" THEN Abort(r, e) ELSE Goto(r, "s3_3") /\ UNCHANGED err
    /\ ghost' = [ ghost EXCEPT !.heap[r] = HeapUse(@, Step3_2_Uses) ]
    /\ UNCHANGED <<ParMassPos_Copy, arg, net>>
    /\ Static

\* step 3-3, lines 372-384
Collect_Step3_3(r) ==
    /\ Runs(r) /\ pc[r] = "s3_3"
    /\ IF arg.JustCountNPar THEN UNCHANGED <<NPar_Copy, ParMassPos_Copy>>
       ELSE /\ ParMassPos_Copy' = [ ParMassPos_Copy EXCEPT ![r][arg.lv] =
                                     [ PID \in DOMAIN patch[r][arg.lv] |-> AllocCopy(r, arg.lv, PID) ] ]
            /\ NPar_Copy' = [ NPar_Copy EXCEPT ![r][arg.lv] =
                               [ PID \in DOMAIN patch[r][arg.lv] |-> AllocCount(r, arg.lv, PID) ] ]
    /\ Goto(r, "s3_4")
    /\ UNCHANGED <<arg, loc, net, ghost, err>>
    /\ Static

\* step 3-4, lines 388-442
Collect_Step3_4(r) ==
    /\ Runs(r) /\ pc[r] = "s3_4"
    /\ IF arg.JustCountNPar
       THEN Goto(r, "s4") /\ UNCHANGED <<NPar_Copy, ParMassPos_Copy, ghost, err>>
       ELSE LET res == StoreReceived(r, arg.lv)
            IN /\ NPar_Copy' = [ NPar_Copy EXCEPT ![r][arg.lv] = res.NPar_Copy ]
               /\ ParMassPos_Copy' = [ ParMassPos_Copy EXCEPT ![r][arg.lv] = res.Copy ]
               /\ ghost' = [ ghost EXCEPT !.ub = @ \/ res.ub, !.heap[r] = HeapUse(@, Step3_4_Uses) ]
               /\ IF res.err # "" THEN Abort(r, res.err) ELSE Goto(r, "s4") /\ UNCHANGED err
    /\ UNCHANGED <<arg, loc, net>>
    /\ Static

\* step 4, lines 448-477
Collect_Step4(r) ==
    /\ Runs(r) /\ pc[r] = "s4"
    /\ IF arg.JustCountNPar
       THEN Goto(r, IF DEBUG_PARTICLE THEN "s5" ELSE "s6")
            /\ UNCHANGED <<NPar_Copy, ParMassPos_Copy, ghost, err>>
       ELSE IF DEBUG_PARTICLE /\ MergeError(r, arg.lv) # ""
       THEN Abort(r, MergeError(r, arg.lv)) /\ UNCHANGED <<NPar_Copy, ParMassPos_Copy, ghost>>
       ELSE /\ ParMassPos_Copy' = [ ParMassPos_Copy EXCEPT ![r][arg.lv] =
                                     [ PID \in DOMAIN patch[r][arg.lv] |-> MergeCopy(r, arg.lv, PID) ] ]
            /\ NPar_Copy' = [ NPar_Copy EXCEPT ![r][arg.lv] =
                               [ PID \in DOMAIN patch[r][arg.lv] |-> MergeCount(r, arg.lv, PID) ] ]
            /\ ghost' = [ ghost EXCEPT !.ub = @ \/ MergeOutside(r, arg.lv) ]
            /\ Goto(r, IF DEBUG_PARTICLE THEN "s5" ELSE "s6") /\ UNCHANGED err
    /\ UNCHANGED <<arg, loc, net>>
    /\ Static

\* step 5, lines 481-499 (DEBUG_PARTICLE only): MPI_Reduce to rank 0
Collect_Step5(r) ==
    /\ Runs(r) /\ pc[r] = "s5"
    /\ r = 0 => \A q \in Ranks \ {0} : net[q].reduced
    /\ net' = [ net EXCEPT ![r].reduced = TRUE,
                           ![r].Get = NParLocal_Get(r, arg.lv),
                           ![r].Check = NParLocal_Check(r, arg.lv) ]
    /\ IF /\ r = 0
          /\ SumSet([ q \in Ranks |-> net'[q].Get ], Ranks) # SumSet([ q \in Ranks |-> net'[q].Check ], Ranks)
       THEN Abort(r, "Total number of active particles != expected")
       ELSE Goto(r, "s6") /\ UNCHANGED err
    /\ UNCHANGED <<NPar_Copy, ParMassPos_Copy, arg, loc, ghost>>
    /\ Static

\* step 6, lines 502-517
Collect_Step6(r) ==
    /\ Runs(r) /\ pc[r] = "s6"
    /\ Delegates => DelegationReady
    /\ NPar_Copy' = [ NPar_Copy EXCEPT ![r] = CollectBuffer_Count(r, arg.lv) ]
    /\ ParMassPos_Copy' = [ ParMassPos_Copy EXCEPT ![r] = CollectBuffer_Copy(r, arg.lv) ]
    /\ Goto(r, "s7")
    /\ ghost' = [ ghost EXCEPT !.deleg[r] = Concat(@, DelegationCalls(arg.lv)) ]
    /\ UNCHANGED <<arg, loc, net, err>>
    /\ Static

\* step 7, lines 520-532
Collect_Step7(r) ==
    /\ Runs(r) /\ pc[r] = "s7"
    /\ loc' = [ loc EXCEPT ![r] = NoLoc ]
    /\ Goto(r, "idle")
    /\ ghost' = [ ghost EXCEPT !.heap[r] = HeapDelete(@, Step7_Deletes) ]
    /\ UNCHANGED <<NPar_Copy, ParMassPos_Copy, arg, net, err>>
    /\ Static

\* Par_LB_CollectParticle2OneLevel_FreeMemory, lines 551-636
FreeMemory(r) ==
    /\ Runs(r) /\ pc[r] = "free"
    /\ NPar_Copy' = [ NPar_Copy EXCEPT ![r] = FreeCount(r, arg.lv) ]
    /\ ParMassPos_Copy' = [ ParMassPos_Copy EXCEPT ![r] = FreeCopy(r, arg.lv) ]
    /\ ghost' = [ ghost EXCEPT !.ndelete[r] = FreeDeletes(r, arg.lv) ]
    /\ IF DEBUG_PARTICLE /\ FreeError(r, arg.lv, ParMassPos_Copy'[r], NPar_Copy'[r]) # ""
       THEN Abort(r, FreeError(r, arg.lv, ParMassPos_Copy'[r], NPar_Copy'[r]))
       ELSE Goto(r, "idle") /\ UNCHANGED err
    /\ UNCHANGED <<arg, loc, net>>
    /\ Static

Next ==
    \/ CallCollect
    \/ CallFree
    \/ \E r \in Ranks : Collect_Enter(r)
    \/ \E r \in Ranks : Collect_MaxLevel(r)
    \/ \E r \in Ranks : Collect_Step1(r)
    \/ \E r \in Ranks : Collect_Step2_Send(r)
    \/ \E r \in Ranks : Collect_Step2_Recv(r)
    \/ \E r \in Ranks : Collect_Step3_1(r)
    \/ \E r \in Ranks : Collect_Step3_2_Seed(r)
    \/ \E r \in Ranks : Collect_Step3_2(r)
    \/ \E r \in Ranks : Collect_Step3_3(r)
    \/ \E r \in Ranks : Collect_Step3_4(r)
    \/ \E r \in Ranks : Collect_Step4(r)
    \/ \E r \in Ranks : Collect_Step5(r)
    \/ \E r \in Ranks : Collect_Step6(r)
    \/ \E r \in Ranks : Collect_Step7(r)
    \/ \E r \in Ranks : FreeMemory(r)

Spec == Init /\ [][Next]_vars

\* the positions of a rank
Positions == {"idle", "enter", "s0", "s1", "s2", "wait", "s3_1", "s3_2", "s3_2a", "s3_3", "s3_4",
              "s4", "s5", "s6", "s7", "free", "abort"}
\* a step of rank r: every action of a rank is guarded by Runs and by the
\* meeting it waits for, and moves the rank to another position
RankStep(r) ==
    /\ Runs(r) /\ ~Blocked(r)
    /\ \E to \in Positions \ {pc[r]} : pc' = [ pc EXCEPT ![r] = to ]
\* The ranks are processes of their own that step in any order; a rank that
\* can step does so eventually.
SpecOrphan == InitOrphan /\ [][Next]_vars
SpecTagged == InitTagged /\ [][Next]_vars
SpecAnyOrder == InitAnyOrder /\ [][Next]_vars /\ \A r \in Ranks : WF_pc(RankStep(r))

\* =================================================================== claims
\* all ranks have returned from Par_LB_CollectParticle2OneLevel
CollectDone == AllIdle /\ arg.op = "collect"
\* all ranks have returned from Par_LB_CollectParticle2OneLevel_FreeMemory
FreeDone == AllIdle /\ arg.op = "free"

\* the real patches of all ranks at a level, as pairs <<rank, PID>>
RealAt(lv) == IF lv \in Levels THEN UNION { {r} \X RealPIDs(r, lv) : r \in Ranks } ELSE {}
IsLeaf(x, lv) == patch[x[1]][lv][x[2]].son = -1
SumOver(S, F(_)) == SumSet([ x \in S |-> F(x) ], S)

\* what a target level shows after the collection: NPar of its leaves and
\* NPar_Copy of its other real patches, over all ranks
Shown(lv) ==
    LET one(x) == IF IsLeaf(x, lv) THEN patch[x[1]][lv][x[2]].NPar ELSE NPar_Copy[x[1]][lv][x[2]]
    IN SumOver(RealAt(lv), one)
\* the particles resident in the real patches of levels lv..MAX_LEVEL
Resident(lv) ==
    LET lvs == { <<l, x>> : l \in lv .. MAX_LEVEL, x \in UNION { RealAt(m) : m \in Levels } }
        ok  == { y \in lvs : y[2] \in RealAt(y[1]) }
        one(y) == patch[y[2][1]][y[1]][y[2][2]].NPar
    IN SumOver(ok, one)

\* C1: after the collection to a level F < MAX_LEVEL has returned on all
\* ranks, in either mode, the leaves' NPar plus the other real patches'
\* NPar_Copy at level F add up, over all ranks, to the number of particles
\* resident in the real patches of the levels F..MAX_LEVEL.
C1_RoundTripConservation ==
    (CollectDone /\ arg.lv < MAX_LEVEL) => Shown(arg.lv) = Resident(arg.lv)
\* a collection to the coarsest level has returned, with every particle of
\* the run shown in a non-leaf patch: one waiting there, one from a descendant
C1_Witness ==
    /\ CollectDone /\ arg.lv = 0
    /\ Resident(0) = MaxPar
    /\ \E x \in RealAt(0) : /\ ~IsLeaf(x, 0) /\ patch[x[1]][0][x[2]].NPar > 0
                            /\ NPar_Copy[x[1]][0][x[2]] > patch[x[1]][0][x[2]].NPar

\* key of the level-F ancestor of a level-lv patch, one level at a time
RECURSIVE Ancestor(_, _, _)
Ancestor(lv, LB_Idx, F) == IF lv <= F THEN LB_Idx ELSE Ancestor(lv - 1, LB_Idx \div 8, F)
\* the real patches above level F, on any rank, that hold particles and whose
\* ancestor at level F is the patch x, as pairs <<level, <<rank, PID>>>>
SourcesOf(F, x) ==
    UNION { { <<l, y>> : y \in { z \in RealAt(l) :
                    /\ patch[z[1]][l][z[2]].NPar > 0
                    /\ Ancestor(l, patch[z[1]][l][z[2]].LB_Idx, F) = patch[x[1]][F][x[2]].LB_Idx } }
            : l \in (F + 1) .. MAX_LEVEL }
\* the particles of a patch and of its descendants
DescendantCount(F, x) ==
    LET one(s) == patch[s[2][1]][s[1]][s[2][2]].NPar
    IN patch[x[1]][F][x[2]].NPar + SumOver(SourcesOf(F, x), one)
FullDone == CollectDone /\ ~arg.JustCountNPar /\ arg.lv \in Levels

\* C2: after a full collection to level F has returned on all ranks, every
\* non-leaf real patch of level F has NPar_Copy equal to its own NPar plus
\* the NPar of all non-empty real patches of the finer levels, on any rank,
\* whose level-F key is its key; every leaf real patch of level F has
\* NPar_Copy = -1.
C2_PerPatchCount ==
    FullDone =>
      \A x \in RealAt(arg.lv) :
         NPar_Copy[x[1]][arg.lv][x[2]] =
            IF IsLeaf(x, arg.lv) THEN NOT_SET ELSE DescendantCount(arg.lv, x)
\* a full collection has summed, into one patch, source patches that live on
\* different ranks and at different levels, next to leaves left at -1
C2_Witness ==
    /\ FullDone
    /\ \E x \in RealAt(arg.lv) :
         /\ ~IsLeaf(x, arg.lv)
         /\ NPar_Copy[x[1]][arg.lv][x[2]] = MaxPar
         /\ \E s, u \in SourcesOf(arg.lv, x) : s[2][1] # u[2][1] /\ s[1] # u[1]
    /\ \E x \in RealAt(arg.lv) : IsLeaf(x, arg.lv)

\* the four values of a stored particle, and of a particle of the repository
StoredTuple(x, lv, i) == [ v \in Vars |-> ParMassPos_Copy[x[1]][lv][x[2]][v].cell[i] ]
ParTuple(q, ParID) == [ v \in Vars |-> Par[q].ParVar[v][ParID] ]
\* the particles of a patch and of its descendants, as pairs <<rank, ParID>>
ParticlesOf(r, lv, PID) ==
    { <<r, patch[r][lv][PID].ParList[p]>> : p \in DOMAIN patch[r][lv][PID].ParList }
DescendantParticles(F, x) ==
    ParticlesOf(x[1], F, x[2])
    \cup UNION { ParticlesOf(s[2][1], s[1], s[2][2]) : s \in SourcesOf(F, x) }
\* all four arrays of a patch hold at least n elements
Holds(x, lv, n) ==
    \A v \in Vars : /\ ParMassPos_Copy[x[1]][lv][x[2]][v].alloc
                     /\ ALen(ParMassPos_Copy[x[1]][lv][x[2]][v].cell) >= n

\* C3: after a full collection to level F without position prediction, the
\* multiset of (mass, x, y, z) stored at the indices 0..NPar_Copy-1 of every
\* non-leaf real patch of level F is the multiset of the (mass, x, y, z) of
\* the patch's own particles and of the particles of all finer real patches,
\* on any rank, whose level-F key is its key: every record went to the patch
\* that has the key the record arrived with.
C3_ContentExact ==
    (FullDone /\ ~arg.PredictPos) =>
      \A x \in RealAt(arg.lv) :
         ~IsLeaf(x, arg.lv) =>
            LET n      == NPar_Copy[x[1]][arg.lv][x[2]]
                stored == 0 .. (n - 1)
                expect == DescendantParticles(arg.lv, x)
            IN /\ n > 0 => Holds(x, arg.lv, n)
               /\ \A i \in stored :
                     Cardinality({ j \in stored : StoredTuple(x, arg.lv, j) = StoredTuple(x, arg.lv, i) })
                       = Cardinality({ e \in expect : ParTuple(e[1], e[2]) = StoredTuple(x, arg.lv, i) })
               /\ \A e \in expect :
                     \E i \in stored : StoredTuple(x, arg.lv, i) = ParTuple(e[1], e[2])
\* two records arrived at one rank in descending key order and were stored
\* in two patches of the target level
C3_Witness ==
    /\ FullDone /\ ~arg.PredictPos /\ arg.lv = MAX_LEVEL - 1
    /\ \E x, y \in RealAt(arg.lv) :
         /\ x[1] = y[1] /\ x[2] # y[2]
         /\ ~IsLeaf(x, arg.lv) /\ ~IsLeaf(y, arg.lv)
         /\ NPar_Copy[x[1]][arg.lv][x[2]] = 1 /\ NPar_Copy[y[1]][arg.lv][y[2]] = 1
         /\ \E s \in SourcesOf(arg.lv, x) : \E u \in SourcesOf(arg.lv, y) :
               s[2][1] = u[2][1] /\ s[2][2] < u[2][2]
                  /\ patch[x[1]][arg.lv][x[2]].LB_Idx > patch[y[1]][arg.lv][y[2]].LB_Idx

\* C4: a count-only collection to level F leaves, in every real patch of
\* level F, the NPar_Copy a full collection on the same hierarchy leaves
\* (the patch's particles plus its descendants', -1 in a leaf), and every
\* ParMassPos_Copy pointer that was null before the call is null after it.
C4_CountOnlyEquivalence ==
    (CollectDone /\ arg.JustCountNPar) =>
      /\ \A x \in RealAt(arg.lv) :
            NPar_Copy[x[1]][arg.lv][x[2]] =
               IF IsLeaf(x, arg.lv) THEN NOT_SET ELSE DescendantCount(arg.lv, x)
      /\ ghost.clean0 =>
            \A r \in Ranks : \A lv \in Levels : \A PID \in DOMAIN patch[r][lv] : \A v \in Vars :
               ~ParMassPos_Copy[r][lv][PID][v].alloc
\* a count-only collection from the released state has counted a record of
\* more than one particle into a patch
C4_Witness ==
    /\ CollectDone /\ arg.JustCountNPar /\ ghost.clean0
    /\ \E x \in RealAt(arg.lv) :
         /\ ~IsLeaf(x, arg.lv)
         /\ NPar_Copy[x[1]][arg.lv][x[2]] = MaxPar
         /\ \E s \in SourcesOf(arg.lv, x) : patch[s[2][1]][s[1]][s[2][2]].NPar = MaxPar

\* the call in progress, or the last one, is a collection that follows a
\* collection to the same level with no release in between
SecondCollect == ghost.calls > 1 /\ arg.op = "collect" /\ ghost.prev.op = "collect"
\* the count-only mode is not combined with another option (lines 83-88)
ValidArgs == ~(arg.JustCountNPar /\ (arg.PredictPos \/ arg.SibBufPatch \/ arg.FaSibBufPatch))
\* rank r owns a real patch of level F that has a son
OwnsNonLeaf(r, F) == F \in Levels /\ \E PID \in RealPIDs(r, F) : patch[r][F][PID].son # -1

\* C5: in a diagnostic build, a collection to a level F < MAX_LEVEL that
\* follows a collection to F with no release in between does not return:
\* no rank owning a non-leaf real patch of level F gets past the checks at
\* the entry, and unless the arguments themselves are rejected the rank that
\* stops there reports the initialized state.
C5_DoubleInitDetected ==
    (DEBUG_PARTICLE /\ SecondCollect /\ arg.lv < MAX_LEVEL) =>
      /\ ~AllIdle
      /\ \A r \in Ranks :
            OwnsNonLeaf(r, arg.lv) =>
               /\ pc[r] \in {"enter", "abort"}
               /\ (pc[r] = "abort" /\ ValidArgs) =>
                     err[r] = "particle parameters have been initialized already"
\* the second collection in a row was stopped at the entry by a rank, after a
\* rank without non-leaf patches at that level had passed the check
C5_Witness ==
    /\ DEBUG_PARTICLE /\ SecondCollect /\ arg.lv < MAX_LEVEL /\ ValidArgs
    /\ \E r \in Ranks : /\ pc[r] = "abort"
                         /\ err[r] = "particle parameters have been initialized already"
    /\ \E r \in Ranks : ~OwnsNonLeaf(r, arg.lv) /\ pc[r] = "wait"
\* C5 as stated, for every target level of the hierarchy: in a diagnostic
\* build the second collection in a row never returns on all ranks
C5_AnyLevel ==
    (DEBUG_PARTICLE /\ SecondCollect /\ arg.lv \in Levels) => ~AllIdle

\* the release in progress, or the last one, follows a collection to the same
\* level, started in the released state, and has its two buffer flags
PairedFree ==
    /\ arg.op = "free" /\ ghost.prev.op = "collect" /\ ghost.clean1
    /\ arg.lv = ghost.prev.lv
    /\ arg.SibBufPatch = ghost.prev.SibBufPatch
    /\ arg.FaSibBufPatch = ghost.prev.FaSibBufPatch

\* C6: after a collection to level L and the release of level L with the
\* same two buffer flags, every patch, real or buffer, of the levels L and
\* L-1 has its four ParMassPos_Copy pointers null and NPar_Copy = -1, which
\* is what the check at the entry of the next collection to L asks of the
\* real patches of L.
C6_TeardownClean ==
    (AllIdle /\ PairedFree) =>
      \A r \in Ranks : \A lv \in {arg.lv, arg.lv - 1} \cap Levels :
         \A PID \in DOMAIN patch[r][lv] : IsClean(r, lv, PID)
\* a release has returned on a rank that freed the arrays of two patches, one
\* of them a father-sibling-buffer patch whose real patch holds a particle
C6_Witness ==
    /\ AllIdle /\ PairedFree
    /\ arg.SibBufPatch /\ arg.FaSibBufPatch /\ arg.lv > 0 /\ ~ghost.prev.JustCountNPar
    /\ \E r \in Ranks :
         /\ ghost.ndelete[r] >= 2 * NParVar
         /\ \E PID \in R2B_Buff_PIDList(r, arg.lv, 1) :
               R2B_Count(arg.lv - 1, patch[r][arg.lv - 1][PID].LB_Idx) > 0

\* C7: a release called when nothing is collected leaves every NPar_Copy at
\* -1 and every pointer null and frees nothing, so that any number of
\* releases in a row leave the state one release leaves.
C7_IdempotentRelease ==
    (FreeDone /\ ghost.clean0) =>
      /\ AllClean
      /\ \A r \in Ranks : ghost.ndelete[r] = 0
\* the second of two releases in a row, with both buffer lists, has returned
C7_Witness ==
    /\ FreeDone /\ ghost.clean0 /\ ghost.clean1
    /\ ghost.calls = 2 /\ ghost.prev.op = "free"
    /\ arg.SibBufPatch /\ arg.FaSibBufPatch /\ arg.lv > 0
    /\ \E r \in Ranks : R2B_Buff_PIDList(r, arg.lv, 1) # {}

\* C8: whenever no call is in progress, every real patch has NPar_Copy = -1,
\* or has NPar_Copy >= 0 and a son; a leaf real patch has NPar_Copy = -1.
C8_Dichotomy ==
    AllIdle =>
      \A lv \in Levels : \A x \in RealAt(lv) :
         \/ NPar_Copy[x[1]][lv][x[2]] = NOT_SET
         \/ NPar_Copy[x[1]][lv][x[2]] >= 0 /\ ~IsLeaf(x, lv)
\* a collection has returned that left 0 in a non-leaf patch and -1 in a
\* leaf that holds particles
C8_Witness ==
    /\ CollectDone /\ arg.lv < MAX_LEVEL
    /\ \E x \in RealAt(arg.lv) : ~IsLeaf(x, arg.lv) /\ NPar_Copy[x[1]][arg.lv][x[2]] = 0
    /\ \E x \in RealAt(arg.lv) : /\ IsLeaf(x, arg.lv) /\ patch[x[1]][arg.lv][x[2]].NPar > 0
                                  /\ NPar_Copy[x[1]][arg.lv][x[2]] = NOT_SET

\* rank r has done the work of a full collection: it is about to free its
\* temporary arrays, or it has returned
AtEnd(r) == /\ arg.op = "collect" /\ ~arg.JustCountNPar /\ arg.lv \in Levels
            /\ pc[r] \in {"s7", "idle"}
\* the four arrays of a patch are all null, or all allocated with NPar_Copy
\* elements, each written once; the particles waiting in the patch are last
PatchFilled(r, F, PID) ==
    LET copy == ParMassPos_Copy[r][F][PID]
        n    == NPar_Copy[r][F][PID]
        P    == patch[r][F][PID]
    IN /\ \/ \A v \in Vars : ~copy[v].alloc /\ n <= 0
          \/ \A v \in Vars : /\ copy[v].alloc
                              /\ ALen(copy[v].cell) = n
                              /\ \A i \in DOMAIN copy[v].nwrite : copy[v].nwrite[i] = 1
       /\ (P.son # -1 /\ P.NPar > 0) =>
             \A p \in DOMAIN P.ParList : \A v \in Vars :
                /\ n - P.NPar + p \in DOMAIN copy[v].cell
                /\ copy[v].cell[n - P.NPar + p] = Par[r].ParVar[v][P.ParList[p]]
\* the records rank r received lie in its patches in the order they arrived
ArrivalOrder(r, F) ==
    \A t \in DOMAIN loc[r].FaPIDList :
       LET PID    == loc[r].FaPIDList[t]
           before == { u \in DOMAIN loc[r].FaPIDList : u < t }
           same   == { u \in before : loc[r].FaPIDList[u] = PID }
           off    == SumSet([ u \in same |-> loc[r].RecvBuf_NParEachPatch[u] ], same)
           first  == SumSet([ u \in before |-> loc[r].RecvBuf_NParEachPatch[u] ], before) * NParVar
       IN \A p \in 0 .. (loc[r].RecvBuf_NParEachPatch[t] - 1) : \A v \in Vars :
             /\ off + p \in DOMAIN ParMassPos_Copy[r][F][PID][v].cell
             /\ ParMassPos_Copy[r][F][PID][v].cell[off + p] =
                   loc[r].RecvBuf_ParDataEachPatch[first + p * NParVar + v]

\* C9: at the end of a full collection to level F the four ParMassPos_Copy
\* arrays of every real patch of F are all null or all allocated with one
\* length; that length is NPar_Copy, every element was written once, the
\* received records lie in consecutive ranges in the order they arrived, the
\* patch's own waiting particles are last, and no write went outside an array.
C9_FillExact ==
    \A r \in Ranks :
       AtEnd(r) =>
          /\ ~ghost.ub
          /\ \A PID \in RealPIDs(r, arg.lv) : PatchFilled(r, arg.lv, PID)
          /\ pc[r] = "s7" => ArrivalOrder(r, arg.lv)
\* a rank is at the end of a full collection with a patch that holds a
\* received particle followed by a particle that waits in the patch
C9_Witness ==
    \E r \in Ranks :
       /\ AtEnd(r) /\ pc[r] = "s7"
       /\ \E PID \in RealPIDs(r, arg.lv) :
            /\ patch[r][arg.lv][PID].son # -1 /\ patch[r][arg.lv][PID].NPar = 1
            /\ NPar_Copy[r][arg.lv][PID] = MaxPar
            /\ \E t \in DOMAIN loc[r].FaPIDList : loc[r].FaPIDList[t] = PID

\* a rank is inside Par_LB_CollectParticle2OneLevel
InCollect == \E r \in Ranks : pc[r] \notin {"idle", "free", "abort"}

\* C10: no step of a collection changes the particle list or the NPar of a
\* patch, or the attributes stored in the particle repository; the predicted
\* positions exist in the send buffer only.
C10_SourceImmutable ==
    [][InCollect => (Par' = Par /\ patch' = patch)]_vars
\* a collection with position prediction has returned: a copy holds the
\* predicted position of a particle whose repository entry holds the old one
C10_Witness ==
    /\ FullDone /\ arg.PredictPos /\ arg.lv < MAX_LEVEL
    /\ \E x \in RealAt(arg.lv) : \E e \in DescendantParticles(arg.lv, x) :
         /\ Holds(x, arg.lv, 1)
         /\ \E i \in 0 .. (NPar_Copy[x[1]][arg.lv][x[2]] - 1) :
               /\ StoredTuple(x, arg.lv, i)[PAR_MASS] = ParTuple(e[1], e[2])[PAR_MASS]
               /\ StoredTuple(x, arg.lv, i)[PAR_POSX] = ParTuple(e[1], e[2])[PAR_POSX] + 1
               /\ StoredTuple(x, arg.lv, i)[PAR_POSY] = ParTuple(e[1], e[2])[PAR_POSY]

\* a position lies in the half-open box of a patch
InsidePatch(lv, LB_Idx, pos) ==
    \A d \in 0 .. 2 : EdgeL(lv, LB_Idx)[d] <= pos[d] /\ pos[d] < EdgeR(lv, LB_Idx)[d]
\* every particle of the repository lies in the patch that lists it
SourcesInside ==
    \A lv \in Levels : \A x \in RealAt(lv) : \A e \in ParticlesOf(x[1], lv, x[2]) :
       InsidePatch(lv, patch[x[1]][lv][x[2]].LB_Idx,
                   [ d \in 0 .. 2 |-> ParTuple(e[1], e[2])[PAR_POSX + d] ])

\* C11: after a full collection without position prediction, on a hierarchy
\* whose particles all lie in their home patches, every particle stored in
\* the ParMassPos_Copy of a real patch of the target level, received or
\* merged from the patch itself, lies in [EdgeL, EdgeR) of that patch on
\* the three axes.
C11_BoundsPreserved ==
    (FullDone /\ ~arg.PredictPos /\ SourcesInside) =>
      \A x \in RealAt(arg.lv) :
         \A i \in 0 .. (NPar_Copy[x[1]][arg.lv][x[2]] - 1) :
            /\ Holds(x, arg.lv, i + 1)
            /\ InsidePatch(arg.lv, patch[x[1]][arg.lv][x[2]].LB_Idx,
                           [ d \in 0 .. 2 |-> StoredTuple(x, arg.lv, i)[PAR_POSX + d] ])
\* a diagnostic build has stored, next to a particle waiting in a patch of
\* level MAX_LEVEL-1, a particle received from a son that does not touch
\* the lower corner of the patch
C11_Witness ==
    /\ FullDone /\ ~arg.PredictPos /\ DEBUG_PARTICLE /\ arg.lv = MAX_LEVEL - 1
    /\ \E x \in RealAt(arg.lv) :
         /\ patch[x[1]][arg.lv][x[2]].NPar = 1
         /\ NPar_Copy[x[1]][arg.lv][x[2]] = 2
         /\ Holds(x, arg.lv, 2)
         /\ StoredTuple(x, arg.lv, 0)[PAR_POSX] > EdgeL(arg.lv, patch[x[1]][arg.lv][x[2]].LB_Idx)[0]

\* the send buffers of rank r are filled and not yet handed over
Filled(r) == pc[r] = "s2"
\* rank r holds the records it received
Received(r) == /\ arg.op = "collect" /\ arg.lv < MAX_LEVEL
               /\ pc[r] \in {"s3_1", "s3_2", "s3_2a", "s3_3", "s3_4", "s4", "s5", "s6", "s7"}
\* the records of rank r start at RankStart(n, scale, q) for the rank q
RankStart(n, scale, q) == SumTo(n, q) * scale

Addressed(r, k, n) ==
    { e \in UNION { { <<s, i>> : i \in DOMAIN SrcList(s, arg.lv, arg.lv + 1) } : s \in Ranks } :
        LET x == SrcList(e[1], arg.lv, arg.lv + 1)[e[2]]
        IN /\ SrcTRank(e[1], arg.lv, x) = r
           /\ SrcLBIdx(e[1], arg.lv, x) = k
           /\ patch[e[1]][x.lv][x.PID].NPar = n }
\* the records rank r holds with key k and n particles, before the keys are
\* sorted in place
Delivered(r, k, n) ==
    { t \in DOMAIN loc[r].RecvBuf_LBIdxEachPatch :
        loc[r].RecvBuf_LBIdxEachPatch[t] = k /\ loc[r].RecvBuf_NParEachPatch[t] = n }

\* C13: a rank is past the exchange only when every rank has handed over its
\* send buffers, and it then holds exactly the records the ranks addressed
\* to it: as many patches and particles as the senders counted for it, every
\* record once, with a key of its own.
C13_CollectiveDelivery ==
    \A r \in Ranks : Received(r) =>
       /\ \A q \in Ranks : net[q].posted
       /\ loc[r].NRecvPatchTotal = SumOver(Ranks, LAMBDA s : net[s].NPatchForEachRank[r])
       /\ loc[r].NRecvParTotal = SumOver(Ranks, LAMBDA s : net[s].NParForEachRank[r])
       /\ ALen(loc[r].RecvBuf_LBIdxEachPatch) = loc[r].NRecvPatchTotal
       /\ ALen(loc[r].RecvBuf_NParEachPatch) = loc[r].NRecvPatchTotal
       /\ SumArr(loc[r].RecvBuf_NParEachPatch) = loc[r].NRecvParTotal
       /\ pc[r] = "s3_1" =>
             \A k \in Keys(arg.lv) \cup {UNINIT} : \A n \in (0 .. MaxPar) \cup {UNINIT} :
                Cardinality(Delivered(r, k, n)) = Cardinality(Addressed(r, k, n))
\* a rank holds a record of its own and a record of another rank while the
\* other rank is still waiting in the exchange
C13_Witness ==
    \E r \in Ranks : \E q \in Ranks \ {r} :
       /\ Received(r) /\ pc[q] = "wait"
       /\ loc[r].RecvBuf_NPatchEachRank[r] = 1
       /\ loc[r].RecvBuf_NPatchEachRank[q] = 1

\* the number of times a rank enters the exchange in a call on level FaLv
ExchangesAt(FaLv) == IF FaLv < MAX_LEVEL THEN 1 ELSE 0
\* a call of the collection that no diagnostic check of the arguments stops
CollectRunning == arg.op = "collect" /\ (DEBUG_PARTICLE => ValidArgs)

Stage(r, lv, PID) ==
    IF ~ParMassPos_Copy[r][lv][PID][PAR_MASS].alloc
    THEN IF NPar_Copy[r][lv][PID] = NOT_SET THEN "UNINITIALIZED"
         ELSE IF pc[r] = "s3_2a" THEN "SEEDED"
         ELSE "ACCUMULATING"
    ELSE IF NPar_Copy[r][lv][PID] < ALen(ParMassPos_Copy[r][lv][PID][PAR_MASS].cell) THEN "ALLOCATED"
         ELSE "FILLED"
\* the order of the stages
StageChain == { <<"UNINITIALIZED", "SEEDED">>, <<"SEEDED", "ACCUMULATING">>,
                <<"ACCUMULATING", "ALLOCATED">>, <<"ALLOCATED", "FILLED">>,
                <<"FILLED", "UNINITIALIZED">> }
\* the first collection from released copies, or the release paired with it
InPair == (arg.op = "collect" /\ ghost.calls = 1) \/ PairedFree
\* the stage after the step
StageNext(r, lv, PID) ==
    IF ~ParMassPos_Copy'[r][lv][PID][PAR_MASS].alloc
    THEN IF NPar_Copy'[r][lv][PID] = NOT_SET THEN "UNINITIALIZED"
         ELSE IF pc'[r] = "s3_2a" THEN "SEEDED"
         ELSE "ACCUMULATING"
    ELSE IF NPar_Copy'[r][lv][PID] < ALen(ParMassPos_Copy'[r][lv][PID][PAR_MASS].cell) THEN "ALLOCATED"
         ELSE "FILLED"
\* the release of a patch that was never allocated: the collection only
\* counted, or the patch has no particle at all
NeverAllocated(r, lv, PID) ==
    /\ Stage(r, lv, PID) = "ACCUMULATING" /\ StageNext(r, lv, PID) = "UNINITIALIZED"
    /\ arg.op = "free"
    /\ ghost.prev.JustCountNPar \/ NPar_Copy[r][lv][PID] = 0

\* C15: in a collection and the release paired with it, the copy of a real
\* patch of the target level changes stage only along UNINITIALIZED, SEEDED,
\* ACCUMULATING, ALLOCATED, FILLED, UNINITIALIZED, except that a patch never
\* allocated (count-only mode, or no particle at all) is released from
\* ACCUMULATING; a full collection leaves every patch with particles FILLED
\* and a patch with a son and no particle in ACCUMULATING with NPar_Copy = 0.
C15_LifecycleOrder ==
    [][ (InPair /\ arg.lv \in Levels) =>
          \A x \in RealAt(arg.lv) :
             /\ \/ StageNext(x[1], arg.lv, x[2]) = Stage(x[1], arg.lv, x[2])
                \/ <<Stage(x[1], arg.lv, x[2]), StageNext(x[1], arg.lv, x[2])>> \in StageChain
                \/ NeverAllocated(x[1], arg.lv, x[2])
             /\ (CollectDone /\ arg.lv < MAX_LEVEL /\ ~IsLeaf(x, arg.lv)) =>
                   Stage(x[1], arg.lv, x[2]) =
                      IF arg.JustCountNPar \/ NPar_Copy[x[1]][arg.lv][x[2]] = 0
                      THEN "ACCUMULATING" ELSE "FILLED" ]_vars
\* a full collection has returned with a patch FILLED by two particles and
\* a patch with a son left in ACCUMULATING with no particle
C15_Witness ==
    /\ CollectDone /\ ghost.calls = 1 /\ ~arg.JustCountNPar /\ arg.lv \in Levels /\ arg.lv < MAX_LEVEL
    /\ \E x \in RealAt(arg.lv) : \E y \in RealAt(arg.lv) :
         /\ Stage(x[1], arg.lv, x[2]) = "FILLED" /\ NPar_Copy[x[1]][arg.lv][x[2]] = 2
         /\ Stage(y[1], arg.lv, y[2]) = "ACCUMULATING" /\ NPar_Copy[y[1]][arg.lv][y[2]] = 0
\* the claim as it stands: every patch, in every mode, follows the chain
C15_EveryPatch ==
    [][ (InPair /\ arg.lv \in Levels) =>
          \A x \in RealAt(arg.lv) :
             \/ StageNext(x[1], arg.lv, x[2]) = Stage(x[1], arg.lv, x[2])
             \/ <<Stage(x[1], arg.lv, x[2]), StageNext(x[1], arg.lv, x[2])>> \in StageChain ]_vars

\* rank r has finished the loop over the sorted records of the first
\* collection and not yet allocated anything
Accumulated(r) == arg.op = "collect" /\ ghost.calls = 1 /\ pc[r] = "s3_3"
\* the particles of the records rank r received for the key LB_Idx; the
\* keys have been sorted in place, the record of the t-th key is the one
\* that arrived at RecvBuf_LBIdxEachPatch_IdxTable[t]
RecvTotal(r, LB_Idx) ==
    SumOver({ t \in DOMAIN loc[r].RecvBuf_LBIdxEachPatch : loc[r].RecvBuf_LBIdxEachPatch[t] = LB_Idx },
            LAMBDA t : loc[r].RecvBuf_NParEachPatch[loc[r].RecvBuf_LBIdxEachPatch_IdxTable[t]])

\* C16: the loop that adds the particle counts of the matching received
\* records to NPar_Copy runs in count-only mode as in full mode: after
\* it, the NPar_Copy of every real patch with a son is its NPar plus the
\* counts of the records received for its key, and every record is mapped
\* to the patch of its key.
C16_AccumulateInBothModes ==
    \A r \in Ranks : Accumulated(r) =>
       /\ \A PID \in RealPIDs(r, arg.lv) :
             patch[r][arg.lv][PID].son # -1 =>
                NPar_Copy[r][arg.lv][PID]
                   = patch[r][arg.lv][PID].NPar + RecvTotal(r, patch[r][arg.lv][PID].LB_Idx)
       /\ \A t \in DOMAIN loc[r].RecvBuf_LBIdxEachPatch :
             LET FaPID == loc[r].FaPIDList[loc[r].RecvBuf_LBIdxEachPatch_IdxTable[t]]
             IN /\ FaPID \in RealPIDs(r, arg.lv)
                /\ patch[r][arg.lv][FaPID].LB_Idx = loc[r].RecvBuf_LBIdxEachPatch[t]
\* in count-only mode a rank has left the loop with a patch whose NPar_Copy
\* holds a particle waiting in it and a received one
C16_Witness ==
    \E r \in Ranks :
       /\ Accumulated(r) /\ arg.JustCountNPar
       /\ \E PID \in RealPIDs(r, arg.lv) :
            /\ patch[r][arg.lv][PID].NPar = 1
            /\ NPar_Copy[r][arg.lv][PID] = 2
\* the claim as it stands: in count-only mode the loop is skipped, so
\* NPar_Copy still holds the seeds after it
C16_SkippedInCountOnly ==
    \A r \in Ranks : (Accumulated(r) /\ arg.JustCountNPar) =>
       \A PID \in RealPIDs(r, arg.lv) :
          NPar_Copy[r][arg.lv][PID] =
             IF patch[r][arg.lv][PID].son # -1 THEN patch[r][arg.lv][PID].NPar ELSE NOT_SET

\* the slots of rank q in a send buffer laid out by the counts n
RankRange(n, scale, q) == RankStart(n, scale, q) .. (RankStart(n, scale, q) + n[q] * scale - 1)
\* the real patches above the target level that hold particles
Senders(r, FaLv) ==
    { x \in UNION { {lv} \X RealPIDs(r, lv) : lv \in (FaLv + 1) .. MAX_LEVEL } :
        patch[r][x[1]][x[2]].NPar # 0 }
\* the patches of a list of the scans
Visited(src) == { <<src[i].lv, src[i].PID>> : i \in DOMAIN src }

\* C17: the two scans visit the real patches above the target level that
\* hold particles, each once; the send buffers have the size of the totals;
\* the records for rank q fill the slots from the sum of the counts of the
\* ranks below q, in the per-patch buffers and, four values a particle, in
\* the field buffer; the ranges of two ranks do not meet; after the fill
\* scan the cursor of every rank is the end of its range, which is the start
\* of the next range or the size of the buffer, and no slot is left unwritten.
C17_SendBufferLayout ==
    \A r \in Ranks : Filled(r) =>
       LET NPatch == loc[r].NPatchForEachRank
           NPar   == loc[r].NParForEachRank
       IN /\ Visited(SrcList(r, arg.lv, arg.lv + 1)) = Senders(r, arg.lv)
          /\ Visited(FillList(r, arg.lv, arg.lv + 1)) = Senders(r, arg.lv)
          /\ ALen(SrcList(r, arg.lv, arg.lv + 1)) = Cardinality(Senders(r, arg.lv))
          /\ ALen(FillList(r, arg.lv, arg.lv + 1)) = Cardinality(Senders(r, arg.lv))
          /\ SumArr(NPatch) = Cardinality(Senders(r, arg.lv))
          /\ SumArr(NPar) = SumOver(Senders(r, arg.lv), LAMBDA x : patch[r][x[1]][x[2]].NPar)
          /\ ALen(loc[r].SendBuf_NParEachPatch) = SumArr(NPatch)
          /\ ALen(loc[r].SendBuf_LBIdxEachPatch) = SumArr(NPatch)
          /\ ALen(loc[r].SendBuf_ParDataEachPatch) = IF arg.JustCountNPar THEN 0 ELSE NParVar * SumArr(NPar)
          /\ \A q \in Ranks :
                /\ \A i \in RankRange(NPatch, 1, q) :
                      /\ i \in DOMAIN loc[r].SendBuf_LBIdxEachPatch
                      /\ loc[r].SendBuf_LBIdxEachPatch[i] \in Keys(arg.lv)
                      /\ LB_Index2Rank(arg.lv, loc[r].SendBuf_LBIdxEachPatch[i]) = q
                      /\ loc[r].SendBuf_NParEachPatch[i] > 0
                /\ SumOver(RankRange(NPatch, 1, q), LAMBDA i : loc[r].SendBuf_NParEachPatch[i]) = NPar[q]
                /\ ~arg.JustCountNPar =>
                      \A j \in RankRange(NPar, NParVar, q) :
                         /\ j \in DOMAIN loc[r].SendBuf_ParDataEachPatch
                         /\ loc[r].SendBuf_ParDataEachPatch[j] # UNINIT
                /\ \A p \in Ranks : p # q =>
                      /\ RankRange(NPatch, 1, p) \cap RankRange(NPatch, 1, q) = {}
                      /\ RankRange(NPar, NParVar, p) \cap RankRange(NPar, NParVar, q) = {}
                /\ loc[r].Offset_NParEachPatch[q] = RankStart(NPatch, 1, q) + NPatch[q]
                /\ loc[r].Offset_NParEachPatch[q] =
                      IF q + 1 \in Ranks THEN RankStart(NPatch, 1, q + 1)
                      ELSE ALen(loc[r].SendBuf_NParEachPatch)
                /\ ~arg.JustCountNPar =>
                      loc[r].Offset_ParDataEachPatch[q] =
                         IF q + 1 \in Ranks THEN RankStart(NPar, NParVar, q + 1)
                         ELSE ALen(loc[r].SendBuf_ParDataEachPatch)
\* a rank has filled its buffers with records for two ranks
C17_Witness ==
    \E r \in Ranks : \E p \in Ranks : \E q \in Ranks :
       /\ Filled(r) /\ ~arg.JustCountNPar /\ p < q
       /\ loc[r].NPatchForEachRank[p] >= 1 /\ loc[r].NPatchForEachRank[q] >= 1
       /\ loc[r].Offset_ParDataEachPatch[p] = RankStart(loc[r].NParForEachRank, NParVar, q)

\* rank r is at the end of the first collection, its arrays still at hand
Reconciled(r) == arg.op = "collect" /\ ghost.calls = 1 /\ arg.lv < MAX_LEVEL /\ pc[r] = "s7"
\* the records handed over for rank r, in the order of the senders
HandedOver(r) == Par_LB_SendParticleData(r)
\* particle k of record t of the records rec
RecordTuple(rec, t, k) ==
    [ v \in Vars |-> rec.RecvBuf_ParDataEachPatch[(SumTo(rec.RecvBuf_NParEachPatch, t) + k) * NParVar + v] ]
\* the particles handed over for the key LB_Idx, as pairs <<record, particle>>
HandedFor(rec, LB_Idx) ==
    UNION { { <<t, k>> : k \in 0 .. (rec.RecvBuf_NParEachPatch[t] - 1) } :
              t \in { u \in DOMAIN rec.RecvBuf_LBIdxEachPatch : rec.RecvBuf_LBIdxEachPatch[u] = LB_Idx } }

\* C18: whatever the order in which the records arrive, at the end of the
\* reconciliation every real patch with a son holds in NPar_Copy its NPar
\* plus the particles of the records handed over for its key, and in a full
\* collection its arrays hold first the tuples of those records, each as
\* often as it was handed over, and last the patch's own waiting particles
\* in the order of its particle list.
C18_OrderIndependence ==
    \A r \in Ranks : Reconciled(r) =>
       LET rec == HandedOver(r)
       IN \A PID \in RealPIDs(r, arg.lv) :
             patch[r][arg.lv][PID].son # -1 =>
                LET x    == <<r, PID>>
                    own  == patch[r][arg.lv][PID].NPar
                    from == HandedFor(rec, patch[r][arg.lv][PID].LB_Idx)
                    recv == 0 .. (Cardinality(from) - 1)
                IN /\ NPar_Copy[r][arg.lv][PID] = own + Cardinality(from)
                   /\ ~arg.JustCountNPar =>
                         /\ Cardinality(from) + own > 0 => Holds(x, arg.lv, Cardinality(from) + own)
                         /\ \A i \in recv :
                               Cardinality({ j \in recv : StoredTuple(x, arg.lv, j) = StoredTuple(x, arg.lv, i) })
                                 = Cardinality({ e \in from :
                                                   RecordTuple(rec, e[1], e[2]) = StoredTuple(x, arg.lv, i) })
                         /\ \A e \in from :
                               \E i \in recv : StoredTuple(x, arg.lv, i) = RecordTuple(rec, e[1], e[2])
                         /\ \A k \in 0 .. (own - 1) :
                               StoredTuple(x, arg.lv, Cardinality(from) + k)
                                  = ParTuple(r, patch[r][arg.lv][PID].ParList[k])
\* a full collection has stored two records that did not arrive in the order
\* of the senders
C18_Witness ==
    \E r \in Ranks :
       /\ Reconciled(r) /\ ~arg.JustCountNPar
       /\ ALen(loc[r].Arrival) = 2
       /\ loc[r].Arrival[0] = 1
       /\ \E PID \in RealPIDs(r, arg.lv) : NPar_Copy[r][arg.lv][PID] >= 1

\* the calls of the buffer collection that the arguments ask for
SibCall   == [ lv |-> arg.lv, t |-> 0 ]
FaSibCall == [ lv |-> arg.lv - 1, t |-> 1 ]
WantSib   == arg.SibBufPatch /\ ~arg.JustCountNPar
WantFaSib == arg.FaSibBufPatch /\ arg.lv > 0 /\ ~arg.JustCountNPar
\* rank r is past the reconciliation of the real patches and the merge
PastMerge(r) == pc[r] \in {"s7", "idle"}

CopyKept(r, lv, PID) ==
    /\ NPar_Copy'[r][lv][PID] = NPar_Copy[r][lv][PID]
    /\ ParMassPos_Copy'[r][lv][PID] = ParMassPos_Copy[r][lv][PID]

\* C20: a collection to a level above MAX_LEVEL changes no copy of any patch
\* and exchanges nothing; a collection to MAX_LEVEL changes no copy of a
\* real patch of any level, so real patches released before it stay with
\* NPar_Copy = -1 and null pointers, builds no send buffer, exchanges
\* nothing, and changes copies of buffer patches only, at the levels the
\* two flags call for.
C20_TopOfRange ==
    [][ (arg.op = "collect" /\ arg.lv >= MAX_LEVEL) =>
          /\ loc' = loc
          /\ \A r \in Ranks : ~net'[r].posted /\ ghost'.nexch[r] = 0
          /\ \A r \in Ranks : \A lv \in Levels : \A PID \in DOMAIN patch[r][lv] :
                \/ CopyKept(r, lv, PID)
                \/ /\ arg.lv = MAX_LEVEL
                   /\ PID \notin RealPIDs(r, lv)
                   /\ \E i \in DOMAIN DelegationCalls(arg.lv) : DelegationCalls(arg.lv)[i].lv = lv
          /\ (AllIdle /\ ghost.clean0) =>
                \A x \in UNION { {lv} \X RealAt(lv) : lv \in Levels } : IsClean(x[2][1], x[1], x[2][2])
      ]_vars
\* a collection to MAX_LEVEL with SibBufPatch has returned: the buffer
\* collection has set the NPar_Copy of a buffer patch of MAX_LEVEL, and every
\* real patch, among them one with particles, is as released
C20_Witness ==
    /\ CollectDone /\ arg.lv = MAX_LEVEL /\ arg.SibBufPatch /\ ghost.calls = 1
    /\ \E r \in Ranks : \E PID \in DOMAIN patch[r][MAX_LEVEL] :
         PID \notin RealPIDs(r, MAX_LEVEL) /\ NPar_Copy[r][MAX_LEVEL][PID] # NOT_SET
    /\ \A x \in RealAt(MAX_LEVEL) : IsClean(x[1], MAX_LEVEL, x[2])
    /\ \E x \in RealAt(MAX_LEVEL) : patch[x[1]][MAX_LEVEL][x[2]].NPar > 0


\* ---------------------------------------------------------------- C21
\* the patches a release of level arg.lv with the flags of arg has in scope
InScope(r, lv, PID) ==
    \/ lv = arg.lv /\ PID \in RealPIDs(r, lv)
    \/ lv = arg.lv /\ arg.SibBufPatch /\ PID \in R2B_Buff_PIDList(r, arg.lv, 0)
    \/ lv = arg.lv - 1 /\ arg.FaSibBufPatch /\ arg.lv > 0 /\ PID \in R2B_Buff_PIDList(r, arg.lv, 1)
\* rank r runs the release in this step
Releases(r) == arg.op = "free" /\ pc[r] = "free" /\ pc'[r] # "free"

\* C21: a release of level L resets (every pointer null, NPar_Copy = -1,
\* one delete [] per non-null array) every real patch of L, the
\* sibling-buffer patches listed for L only when SibBufPatch is set, and the
\* father-sibling-buffer patches of L-1 only when FaSibBufPatch is set and
\* L > 0; the copy of every other patch, on every rank, is left as it was.
C21_TeardownScope ==
    [][ \A r \in Ranks : Releases(r) =>
          /\ \A lv \in Levels : \A PID \in DOMAIN patch[r][lv] :
                IF InScope(r, lv, PID)
                THEN NPar_Copy'[r][lv][PID] = NOT_SET /\ ParMassPos_Copy'[r][lv][PID] = NullCopy
                ELSE CopyKept(r, lv, PID)
          /\ ghost'.ndelete[r] =
                Cardinality({ x \in UNION { {lv} \X (DOMAIN patch[r][lv]) \X Vars : lv \in Levels } :
                                InScope(r, x[1], x[2]) /\ ParMassPos_Copy[r][x[1]][x[2]][x[3]].alloc })
          /\ \A q \in Ranks \ {r} : \A lv \in Levels : \A PID \in DOMAIN patch[q][lv] :
                CopyKept(q, lv, PID)
      ]_vars
\* a release without FaSibBufPatch has returned after a full collection with
\* it: a rank freed the arrays of a real patch of L and still holds the
\* arrays of a father-sibling-buffer patch of L-1
C21_Witness ==
    /\ FreeDone /\ ghost.prev.op = "collect" /\ ~ghost.prev.JustCountNPar
    /\ ghost.prev.FaSibBufPatch /\ ~arg.FaSibBufPatch /\ arg.lv > 0
    /\ \E r \in Ranks :
         /\ ghost.ndelete[r] >= NParVar
         /\ \A PID \in RealPIDs(r, arg.lv) : IsClean(r, arg.lv, PID)
         /\ \E PID \in R2B_Buff_PIDList(r, arg.lv, 1) :
               \E v \in Vars : ParMassPos_Copy[r][arg.lv - 1][PID][v].alloc

\* ---------------------------------------------------------------- C22
\* the arrays a call that goes past step 0 allocates or receives
Allocated ==
    IF arg.JustCountNPar THEN Temporaries \ { "SendBuf_ParDataEachPatch", "RecvBuf_ParDataEachPatch" }
    ELSE Temporaries
AfterExchange == { "s3_1", "s3_2", "s3_2a", "s3_3", "s3_4", "s4", "s5", "s6", "s7" }

\* C22: in every call of the collection, whatever its path, no temporary
\* array is allocated twice, deleted without being allocated, deleted twice
\* (not even through its second name), or read or written while not
\* allocated; the send buffers are allocated until the exchange returns and
\* released from then on, before the reconciliation; at the return every
\* array the call allocated or received has been deleted exactly once,
\* which are all fourteen in the full mode, the twelve without particle
\* data in the count-only mode, and none when the target level is
\* MAX_LEVEL or above, so that no local buffer outlives the call.
C22_EphemeralLifetime ==
    arg.op = "collect" =>
      \A r \in Ranks :
         LET h == ghost.heap[r]
         IN /\ ~h.bad
            /\ \A a \in Temporaries : h.new[a] <= 1 /\ h.del[a] <= h.new[a]
            /\ pc[r] = "wait" => \A a \in SendBuffers \cap Allocated : Live(h, a)
            /\ pc[r] \in AfterExchange =>
                  \A a \in SendBuffers : ~Live(h, a) /\ (a \in Allocated => h.del[a] = 1)
            /\ pc[r] = "idle" =>
                  /\ loc[r] = NoLoc
                  /\ \A a \in Temporaries :
                        /\ h.del[a] = h.new[a]
                        /\ h.new[a] = (IF arg.lv < MAX_LEVEL /\ a \in Allocated THEN 1 ELSE 0)
\* a full collection below MAX_LEVEL has returned on every rank, each having
\* allocated and deleted every one of the fourteen arrays once
C22_Witness ==
    /\ CollectDone /\ ~arg.JustCountNPar /\ arg.lv < MAX_LEVEL
    /\ \A r \in Ranks : \A a \in Temporaries :
          ghost.heap[r].new[a] = 1 /\ ghost.heap[r].del[a] = 1
    /\ \E r \in Ranks : \E PID \in RealPIDs(r, arg.lv) : NPar_Copy[r][arg.lv][PID] > 0

\* ------------------------------------------------- the fast-path key
\* The key of the ancestor, lines 172 and 228 (LOAD_BALANCE == HILBERT):
\*    LB_Idx = patch->LB_Idx / ( 1 << (3*(lv-FaLv)) )
\* patch->LB_Idx is a long; the divisor is the int 1 shifted as an int.
\* Keys of deep levels need more than 31 bits, so here a key is the sequence
\* of its binary digits, most significant first, and the levels go up to
\* KeyMaxLevel instead of MAX_LEVEL.
KeyMaxLevel == 12
\* width of int, the type of the literal 1 and of the shift
IntBits == 32
KeyLevels == 0 .. KeyMaxLevel
\* a level-lv key has three bits per level and one bit for the base patches
KeyWidth(lv) == 3 * lv + 1
\* the keys tried at level lv: all digits 7, the first key of the second base
\* patch, and alternating bits
KeyCand(lv) ==
    { [ i \in 1 .. KeyWidth(lv) |-> 1 ],
      [ i \in 1 .. KeyWidth(lv) |-> IF i = 1 THEN 1 ELSE 0 ],
      [ i \in 1 .. KeyWidth(lv) |-> i % 2 ] }
\* a key without its leading zeros
RECURSIVE Norm(_)
Norm(k) == IF k = << >> THEN << >> ELSE IF Head(k) = 0 THEN Norm(Tail(k)) ELSE k
\* k / 2^n for a key k >= 0, which is k >> n
ShiftRight(k, n) == IF n >= Len(k) THEN << >> ELSE Norm(SubSeq(k, 1, Len(k) - n))
\* 1 << n in int: 2^n while the result fits (n a multiple of 3, so n <= 30);
\* for n >= IntBits the shift is undefined, and the build gives the shift
\* by the low five bits of n or gives 0
ShiftLeftInt(n) ==
    IF n < IntBits - 1 THEN { [ zero |-> FALSE, log |-> n ] }
    ELSE { [ zero |-> FALSE, log |-> n % IntBits ], [ zero |-> TRUE, log |-> 0 ] }
\* LB_Idx / ( 1 << (3*(lv-FaLv)) ): a division by 0 traps or gives 0
FastKey(LB_Idx, lv, FaLv) ==
    UNION { IF d.zero THEN { [ trap |-> TRUE, key |-> << >> ], [ trap |-> FALSE, key |-> << >> ] }
            ELSE { [ trap |-> FALSE, key |-> ShiftRight(LB_Idx, d.log) ] } :
              d \in ShiftLeftInt(3 * (lv - FaLv)) }

\* one real patch with particles at a level above the target level
InitKey ==
    /\ DEBUG_PARTICLE = FALSE
    /\ LB_CutPoint = EmptyArr /\ NPatchComma = EmptyArr /\ Par = EmptyArr
    /\ NPar_Copy = EmptyArr /\ ParMassPos_Copy = EmptyArr /\ net = EmptyArr /\ ghost = EmptyArr
    /\ err = ""
    /\ \E FaLv \in KeyLevels : \E lv \in (FaLv + 1) .. KeyMaxLevel : \E k \in KeyCand(lv) :
         /\ arg = [ NoArg EXCEPT !.op = "collect", !.lv = FaLv ]
         /\ patch = [ lv |-> lv, LB_Idx |-> k ]
    /\ pc = "count"
    /\ loc = [ count |-> << >>, fill |-> << >> ]
\* lines 170-173: the key in the counting scan
KeyCount ==
    /\ pc = "count"
    /\ \E out \in FastKey(patch.LB_Idx, patch.lv, arg.lv) :
         /\ loc' = [ loc EXCEPT !.count = out.key ]
         /\ pc' = IF out.trap THEN "abort" ELSE "fill"
    /\ UNCHANGED <<arg, net, err, ghost, NPar_Copy, ParMassPos_Copy>>
    /\ Static
\* lines 226-229: the key in the filling scan
KeyFill ==
    /\ pc = "fill"
    /\ \E out \in FastKey(patch.LB_Idx, patch.lv, arg.lv) :
         /\ loc' = [ loc EXCEPT !.fill = out.key ]
         /\ pc' = IF out.trap THEN "abort" ELSE "done"
    /\ UNCHANGED <<arg, net, err, ghost, NPar_Copy, ParMassPos_Copy>>
    /\ Static
NextKey == KeyCount \/ KeyFill
SpecKey == InitKey /\ [][NextKey]_vars

\* ---------------------------------------------------------------- C23
\* the key the claim names: the finer key shifted right by 3*(lv-F) bits
ShiftedKey == ShiftRight(patch.LB_Idx, 3 * (patch.lv - arg.lv))
\* the value the counting scan, and then the filling scan, has computed
KeyExact ==
    /\ pc # "abort"
    /\ pc \in {"fill", "done"} => loc.count = ShiftedKey
    /\ pc = "done" => loc.fill = ShiftedKey

\* C23 as claimed: for every target level F >= 0 and every source level lv
\* above it, the key both scans compute is the finer key shifted right by
\* 3*(lv-F) bits, the int divisor never overflowing.
C23_ShiftExact == KeyExact
\* C23 as far as it holds: the key is the shifted key whenever the shift
\* count 3*(lv-F) is below the width of int, that is for lv-F <= 10.
C23_ShiftExactBelowWidth ==
    3 * (patch.lv - arg.lv) < IntBits - 1 => KeyExact
\* both scans have computed the key for a level difference of 10, the
\* largest whose divisor fits, from a key of more than 31 bits
C23_Witness ==
    /\ pc = "done" /\ patch.lv - arg.lv = 10 /\ Len(patch.LB_Idx) > IntBits
    /\ loc.fill = ShiftedKey /\ loc.fill # << >>

\* ---------------------------------------------------------------- C24
\* rank r holds the records of the exchange of this call
HoldsRecords(r) ==
    arg.op = "collect" /\ arg.lv < MAX_LEVEL /\ "RecvBuf_LBIdxEachPatch" \in DOMAIN loc[r]
\* the real patches of rank r at the target level with the key LB_Idx
KeyOwners(r, LB_Idx) == { PID \in RealPIDs(r, arg.lv) : patch[r][arg.lv][PID].LB_Idx = LB_Idx }
\* a key received by rank r that is the key of none of its real patches of
\* the target level, and one that is the key of a leaf
Unmatched(r) ==
    \E t \in DOMAIN loc[r].RecvBuf_LBIdxEachPatch : KeyOwners(r, loc[r].RecvBuf_LBIdxEachPatch[t]) = {}
MatchesLeaf(r) ==
    \E t \in DOMAIN loc[r].RecvBuf_LBIdxEachPatch :
       \E PID \in KeyOwners(r, loc[r].RecvBuf_LBIdxEachPatch[t]) : patch[r][arg.lv][PID].son = -1
MatchErrors == { "found no match", "SonPID == -1" }
\* past step 3-2: the positions from the allocation on, and the return
PastReconcile == { "s3_3", "s3_4", "s4", "s5", "s6", "s7", "idle" }
\* every real patch with particles above the target level has, on the rank
\* its target-level key maps to, a real patch with that key and with a son
NestedAbove(FaLv) ==
    \A r \in Ranks : \A lv \in (FaLv + 1) .. MAX_LEVEL : \A PID \in RealPIDs(r, lv) :
       patch[r][lv][PID].NPar > 0 =>
          LET k == FaLBIdx(patch[r][lv][PID].LB_Idx, lv, FaLv)
              q == LB_Index2Rank(FaLv, k)
          IN \E FaPID \in RealPIDs(q, FaLv) :
                patch[q][FaLv][FaPID].LB_Idx = k /\ patch[q][FaLv][FaPID].son # -1

\* C24: in a diagnostic build a rank that has received a record whose key
\* is the key of none of its real patches of the target level, or the key
\* of a leaf, never gets past step 3-2: it stops there with the error of
\* line 345 or of line 353, with every ParMassPos_Copy pointer of the target
\* level still null; and where every patch with particles above the target
\* level has a real ancestor with a son on the rank its key maps to, no
\* rank stops with either error.
C24_UnmatchedDetected ==
    /\ \A r \in Ranks :
          (DEBUG_PARTICLE /\ HoldsRecords(r) /\ (Unmatched(r) \/ MatchesLeaf(r))) =>
             /\ pc[r] \notin PastReconcile
             /\ pc[r] = "abort" =>
                   /\ err[r] \in MatchErrors
                   /\ \A PID \in DOMAIN patch[r][arg.lv] : ParMassPos_Copy[r][arg.lv][PID] = NullCopy
    /\ \A r \in Ranks :
          err[r] \in MatchErrors =>
             /\ DEBUG_PARTICLE /\ HoldsRecords(r) /\ pc[r] = "abort"
             /\ err[r] = "found no match" => Unmatched(r)
             /\ err[r] = "SonPID == -1" => MatchesLeaf(r)
             /\ ~NestedAbove(arg.lv)
\* both errors are met: a rank has stopped on a record whose key none of its
\* real patches has, on a hierarchy where another target level is nested
C24_Witness ==
    \E r \in Ranks :
       /\ DEBUG_PARTICLE /\ HoldsRecords(r) /\ pc[r] = "abort"
       /\ err[r] = "found no match" /\ Unmatched(r)
       /\ \E FaLv \in Levels : FaLv < MAX_LEVEL /\ FaLv # arg.lv
\* a rank has stopped on a record whose key is the key of a leaf
C24_WitnessLeaf ==
    \E r \in Ranks :
       /\ DEBUG_PARTICLE /\ HoldsRecords(r) /\ pc[r] = "abort"
       /\ err[r] = "SonPID == -1" /\ MatchesLeaf(r)
\* a diagnostic collection has returned on a hierarchy that is nested above
\* the target level and not above another level
C24_WitnessNested ==
    /\ CollectDone /\ DEBUG_PARTICLE /\ arg.lv < MAX_LEVEL /\ NestedAbove(arg.lv)
    /\ \E FaLv \in Levels : FaLv < MAX_LEVEL /\ ~NestedAbove(FaLv)
    /\ \A r \in Ranks : pc[r] = "idle"

\* ---------------------------------------------------------------- C25
\* rank r has, in a real patch with sons of the target level, a resident
\* particle whose time tag is not negative
BadTag(r) ==
    \E PID \in MergePIDs(r, arg.lv) : \E p \in DOMAIN patch[r][arg.lv][PID].ParList :
       Par[r].Time[patch[r][arg.lv][PID].ParList[p]] >= 0
\* rank r is in a full diagnostic collection below MAX_LEVEL
FullDebug(r) ==
    /\ arg.op = "collect" /\ arg.lv < MAX_LEVEL /\ ~arg.JustCountNPar /\ DEBUG_PARTICLE
\* rank r has gone through step 4 of the call
Merged(r) == pc[r] \in {"s5", "s6", "s7", "idle"}
TagError == "This particle shouldn't be here"

\* C25 as claimed: in a diagnostic build a rank that would append a resident
\* particle with a non-negative time tag never completes the merge, whatever
\* the integrator.
C25_EveryIntegrator ==
    \A r \in Ranks : (FullDebug(r) /\ BadTag(r)) => ~Merged(r)
\* C25: in a diagnostic build under PAR_INTEG_KDK a rank that would append
\* a resident particle with a non-negative time tag never completes the
\* merge: it stops in step 4 with the error of line 460, which is raised in
\* no other case; under another integrator the check is not made,
\* the error is never raised, and the particle is appended.
C25_TimeTagCheck ==
    \A r \in Ranks :
       /\ (FullDebug(r) /\ BadTag(r) /\ Par[r].Integ = "PAR_INTEG_KDK") => ~Merged(r)
       /\ err[r] = TagError =>
             FullDebug(r) /\ BadTag(r) /\ Par[r].Integ = "PAR_INTEG_KDK" /\ pc[r] = "abort"
       /\ (FullDebug(r) /\ BadTag(r) /\ Par[r].Integ # "PAR_INTEG_KDK" /\ pc[r] \in {"s5", "s6", "s7"}) =>
             \A PID \in MergePIDs(r, arg.lv) :
                /\ NPar_Copy[r][arg.lv][PID] >= patch[r][arg.lv][PID].NPar
                /\ \A p \in DOMAIN patch[r][arg.lv][PID].ParList :
                      \E i \in DOMAIN ParMassPos_Copy[r][arg.lv][PID][PAR_MASS].cell :
                         \A v \in Vars :
                            ParMassPos_Copy[r][arg.lv][PID][v].cell[i]
                               = Par[r].ParVar[v][patch[r][arg.lv][PID].ParList[p]]
\* under PAR_INTEG_KDK a rank has stopped in step 4 on a waiting particle
\* with the time tag 0
C25_Witness ==
    \E r \in Ranks :
       /\ FullDebug(r) /\ BadTag(r) /\ Par[r].Integ = "PAR_INTEG_KDK"
       /\ pc[r] = "abort" /\ err[r] = TagError
\* under another integrator the same particle has been appended
C25_WitnessOther ==
    \E r \in Ranks :
       /\ FullDebug(r) /\ BadTag(r) /\ Par[r].Integ = "PAR_INTEG_EULER"
       /\ pc[r] = "s5"

\* ---------------------------------------------------------------- C26
\* the call in progress, or the last one, is a count-only collection with
\* one of the three other options
MixedCount == arg.op = "collect" /\ ~ValidArgs
ArgErrors == { "JustCountNPar does NOT work with PredictPos",
               "JustCountNPar does NOT work with SibBufPatch",
               "JustCountNPar does NOT work with FaSibBufPatch" }
\* the count a count-only collection to level F without the three options
\* leaves in patch PID of level lv on rank r, started in the released state
PlainCount(F, r, lv, PID) ==
    IF lv = F /\ <<r, PID>> \in RealAt(F) /\ ~IsLeaf(<<r, PID>>, F)
    THEN DescendantCount(F, <<r, PID>>)
    ELSE NOT_SET
\* no copy array is allocated and no buffer collection was called
NothingCollected ==
    /\ \A r \in Ranks : \A lv \in Levels : \A PID \in DOMAIN patch[r][lv] : \A v \in Vars :
          ~ParMassPos_Copy[r][lv][PID][v].alloc
    /\ \A r \in Ranks : ghost.deleg[r] = EmptyArr
\* a diagnostic build stops the mixed call at the entry of every rank that
\* runs, with the state of the patches as the call found it
StoppedAtEntry ==
    (MixedCount /\ DEBUG_PARTICLE /\ arg.lv <= MAX_LEVEL) =>
       /\ \A r \in Ranks : /\ pc[r] \in {"enter", "abort"}
                            /\ pc[r] = "abort" => err[r] \in ArgErrors
                            /\ ghost.deleg[r] = EmptyArr
       /\ ghost.clean0 => AllClean
\* while the mixed call is stopped in a diagnostic build no step writes to a
\* patch or to the repository
StoppedUntouched ==
    (MixedCount /\ arg' = arg /\ DEBUG_PARTICLE /\ arg.lv <= MAX_LEVEL) =>
       UNCHANGED <<NPar_Copy, ParMassPos_Copy, patch, Par>>
\* a production build returns from the count-only call, mixed or not, with
\* the counts of the plain count-only call
IgnoredInProduction ==
    (CollectDone /\ arg.JustCountNPar /\ ~DEBUG_PARTICLE /\ ghost.clean0) =>
       /\ \A r \in Ranks : \A lv \in Levels : \A PID \in DOMAIN patch[r][lv] :
             NPar_Copy[r][lv][PID] = PlainCount(arg.lv, r, lv, PID)
       /\ NothingCollected

\* C26 as claimed: in a diagnostic build the count-only call with one of the
\* three other options never returns, whatever the target level.
C26_AnyLevel ==
    (MixedCount /\ DEBUG_PARTICLE) => ~AllIdle
\* C26: in a diagnostic build a count-only collection to a level
\* F <= MAX_LEVEL with PredictPos, SibBufPatch or FaSibBufPatch stops at the
\* entry with the error of lines 85-87 before any patch is written; in a
\* production build a count-only collection started in the released state
\* returns with the same NPar_Copy in every patch whether the three options
\* are given or not, with no copy array allocated and no buffer collection.
C26_CountOnlyFlags ==
    /\ [](StoppedAtEntry /\ IgnoredInProduction)
    /\ [][StoppedUntouched]_vars
\* a production build has returned from a count-only collection with the three
\* options to a level that has buffer patches of both lists, with a patch
\* holding the particles of a descendant
C26_Witness ==
    /\ CollectDone /\ ~DEBUG_PARTICLE /\ ghost.clean0
    /\ arg.JustCountNPar /\ arg.PredictPos /\ arg.SibBufPatch /\ arg.FaSibBufPatch
    /\ arg.lv \in 1 .. (MAX_LEVEL - 1)
    /\ \E x \in RealAt(arg.lv) : ~IsLeaf(x, arg.lv) /\ NPar_Copy[x[1]][arg.lv][x[2]] = MaxPar
    /\ \E r \in Ranks : /\ R2B_Buff_PIDList(r, arg.lv, 0) # {}
                         /\ R2B_Buff_PIDList(r, arg.lv, 1) # {}
\* a diagnostic build has stopped a rank at the entry of the mixed call
C26_WitnessStopped ==
    /\ MixedCount /\ DEBUG_PARTICLE /\ arg.lv \in Levels
    /\ \E r \in Ranks : pc[r] = "abort" /\ err[r] \in ArgErrors
====
